---- MODULE Spec2Model ----
(***************************************************************************)
(* Model of the analytical core of SupersonicNozzleCalculations:           *)
(* film_cooling.py, the four flow-relation modules, nozzle_geometry.py and *)
(* the comparison of cfd_integration.py.                                   *)
(*                                                                         *)
(* Numbers.  The + - * / of the Python code are modelled exactly, over     *)
(* rationals <<n, d>> in lowest terms with d > 0.  The transcendental      *)
(* calls (x ** 0.2, math.sqrt, np.cos) are modelled as the true value      *)
(* rounded down to a grid (1/RootDen, 1/SqrtDen) or as a table at the      *)
(* sampled angles.  Where a result depends on the rounding of binary64     *)
(* arithmetic (the wall temperature), each operation rounds to Digits      *)
(* significant decimal digits, a narrowed stand-in for the 53-bit          *)
(* significand.  A Python value is either a number or one of the           *)
(* outcomes the interpreter produces instead of one: a raised exception,   *)
(* a complex number, or, in numpy array arithmetic, inf / nan.             *)
(***************************************************************************)
EXTENDS Integers, Sequences, FiniteSets, TLC

VARIABLES call, result, nozzle, stdin, stdout, cfd, frame

vars == <<call, result, nozzle, stdin, stdout, cfd, frame>>

---------------------------------------------------------------------------
(* Bounds of the model *)

\* resolution of the modelled fifth root: results are multiples of 1/RootDen
RootDen == 4

\* resolution of the modelled square root: results are multiples of 1/SqrtDen
SqrtDen == 10

\* significant decimal digits kept by the modelled floating-point rounding
Digits == 3

\* longest x_points list handed to analyze_cooling_performance
MaxPoints == 2

\* longest sequence of input lines typed at a single prompt
MaxLines == 3

---------------------------------------------------------------------------
(* Exact rational arithmetic *)

\* the element of a set of one element; binding a value to a name in such a
\* set computes the value once
TheOne(S) == CHOOSE r \in S : TRUE

Abs(a) == IF a < 0 THEN -a ELSE a

RECURSIVE GCD(_, _)
GCD(a, b) == IF b = 0 THEN a ELSE GCD(b, a % b)

\* the rational n/d in lowest terms, d # 0
R(n, d) ==
    LET g == GCD(Abs(n), Abs(d))
        s == IF d < 0 THEN -1 ELSE 1
    IN  <<(s * n) \div g, (s * d) \div g>>

Zero == <<0, 1>>
One == <<1, 1>>

RNeg(a) == <<-a[1], a[2]>>
RAdd(a, b) ==
    TheOne({R(x[1] * y[2] + y[1] * x[2], x[2] * y[2]) : x \in {a}, y \in {b}})
RSub(a, b) == RAdd(a, RNeg(b))

\* product, cancelling across the factors before multiplying
RMul(a, b) ==
    TheOne({LET g1 == GCD(Abs(x[1]), y[2])
                g2 == GCD(Abs(y[1]), x[2])
            IN  R((x[1] \div g1) * (y[1] \div g2),
                  (x[2] \div g2) * (y[2] \div g1)) : x \in {a}, y \in {b}})

RInv(a) == R(a[2], a[1])
\* quotient a / b for b # 0
RDiv(a, b) == RMul(a, RInv(b))

RLe(a, b) == a[1] * b[2] <= b[1] * a[2]
RLt(a, b) == a[1] * b[2] < b[1] * a[2]
RAbs(a) == <<Abs(a[1]), a[2]>>
RMin(a, b) == IF RLe(a, b) THEN a ELSE b
RMax(a, b) == IF RLe(a, b) THEN b ELSE a

RECURSIVE RPow(_, _)
\* a ** e for a natural number e
RPow(a, e) == IF e = 0 THEN One ELSE RMul(a, RPow(a, e - 1))

RECURSIVE PowLe(_, _, _)
\* k^r <= t, for k >= 0, r >= 0, without forming k^r
PowLe(k, r, t) ==
    IF r = 0 THEN 1 <= t
    ELSE IF k = 0 THEN 0 <= t
    ELSE PowLe(k, r - 1, t \div k)

RECURSIVE RootSearch(_, _, _, _)
\* the largest k in lo..hi with k^r <= t, given lo^r <= t
RootSearch(lo, hi, r, t) ==
    IF lo = hi THEN lo
    ELSE LET mid == (lo + hi + 1) \div 2
         IN  IF PowLe(mid, r, t) THEN RootSearch(mid, hi, r, t)
             ELSE RootSearch(lo, mid - 1, r, t)

RECURSIVE IPow(_, _)
IPow(b, e) == IF e = 0 THEN 1 ELSE b * IPow(b, e - 1)

\* the r-th root of a >= 0, rounded down to a multiple of 1/den
Root(a, r, den) ==
    LET t == (a[1] * IPow(den, r)) \div a[2]
    IN  R(RootSearch(0, t, r, t), den)

\* a >= 0 rounded down to a multiple of 1/den
Round(a, den) == R((a[1] * den) \div a[2], den)

\* a >= 0 rounded to the nearest integer, ties to even
RoundHalfEven(a) ==
    LET n == a[1] \div a[2]
        rem == a[1] % a[2]
    IN  IF 2 * rem < a[2] THEN n
        ELSE IF 2 * rem > a[2] THEN n + 1
        ELSE IF n % 2 = 0 THEN n ELSE n + 1

\* Body applied to a value that is computed once
Bind(value, Body(_)) == TheOne({Body(v) : v \in {value}})

RECURSIVE FloatRoundPos(_)
\* a > 0 rounded to Digits significant digits
FloatRoundPos(a) ==
    IF a[1] \div a[2] >= IPow(10, Digits) THEN
        TheOne({RMul(<<10, 1>>, rounded) :
                   rounded \in {FloatRoundPos(scaled) :
                                   scaled \in {RMul(a, <<1, 10>>)}}})
    ELSE IF a[1] \div a[2] < IPow(10, Digits - 1) THEN
        TheOne({RMul(<<1, 10>>, rounded) :
                   rounded \in {FloatRoundPos(scaled) :
                                   scaled \in {RMul(a, <<10, 1>>)}}})
    ELSE <<RoundHalfEven(a), 1>>

\* the rounding of one floating-point operation: the exact result a rounded
\* to the nearest number of Digits significant digits, ties to even
FloatRound(a) ==
    IF a = Zero THEN Zero
    ELSE IF a[1] < 0 THEN RNeg(FloatRoundPos(RNeg(a)))
    ELSE FloatRoundPos(a)

RECURSIVE DecimalPlaces(_, _)
\* the least k >= places with 10^k a multiple of den
DecimalPlaces(den, places) ==
    IF IPow(10, places) % den = 0 THEN places
    ELSE DecimalPlaces(den, places + 1)

\* a number with finitely many decimal digits is Mantissa * 10^Exponent,
\* the mantissa an integer
Exponent(a) == -DecimalPlaces(a[2], 0)

Mantissa(a) == a[1] * (IPow(10, DecimalPlaces(a[2], 0)) \div a[2])

\* 10^e as a rational
PowerOfTen(e) == IF e >= 0 THEN <<IPow(10, e), 1>> ELSE <<1, IPow(10, -e)>>

\* a * 10^e, in two steps that keep every integer small
Scale(a, e) == RMul(RMul(a, PowerOfTen(e \div 2)), PowerOfTen(e - e \div 2))

\* the floating-point product of two floats: the product of the mantissas
\* rounded, at the sum of the exponents
FloatMul(a, b) ==
    TheOne({Scale(FloatRound(<<Mantissa(x) * Mantissa(y), 1>>),
                  Exponent(x) + Exponent(y)) : x \in {a}, y \in {b}})

---------------------------------------------------------------------------
(* Python values and outcomes *)

Num(q) == [kind |-> "num", val |-> q, err |-> ""]
Raise(e) == [kind |-> "error", val |-> Zero, err |-> e]
\* numpy's signed infinity and nan
Inf(sign) == [kind |-> "inf", val |-> <<sign, 1>>, err |-> ""]
NaN == [kind |-> "nan", val |-> Zero, err |-> ""]
\* a Python complex number (a negative base raised to a fractional power)
Complex == [kind |-> "complex", val |-> Zero, err |-> ""]

IsNum(v) == v.kind = "num"
IsError(v) == v.kind = "error"

\* a local name not assigned yet
Unassigned == [kind |-> "unassigned", val |-> Zero, err |-> ""]

\* the grid of the root of order r
PowDen(r) == IF r = 5 THEN RootDen ELSE SqrtDen

\* a ** (p / r) of Python floats, r >= 1: float.__pow__; a zero base with a
\* negative exponent raises, a negative base with a fraction is complex
\* the root is taken first and rounded down, then raised to |p|
Pow(a, p, r) ==
    IF r = 1 THEN
        (IF p >= 0 THEN Num(RPow(a, p))
         ELSE IF a = Zero THEN Raise("ZeroDivisionError")
         ELSE Num(RPow(RInv(a), -p)))
    ELSE IF a[1] < 0 THEN Complex
    ELSE IF a = Zero THEN
        (IF p < 0 THEN Raise("ZeroDivisionError") ELSE Num(Zero))
    ELSE IF p > 0 THEN Num(RPow(Root(a, r, PowDen(r)), p))
    ELSE Num(RPow(Root(RInv(a), r, PowDen(r)), -p))

---------------------------------------------------------------------------
(* film_cooling.py *)

CoolantType == {"AIR", "HELIUM", "NEON"}

COOLANT_PROPERTIES ==
    [AIR |-> [specific_heat |-> R(1005, 1),
              thermal_conductivity |-> R(262, 10000),
              viscosity |-> R(184, 10000000),
              density |-> R(1225, 1000)],
     HELIUM |-> [specific_heat |-> R(5193, 1),
                 thermal_conductivity |-> R(1513, 10000),
                 viscosity |-> R(197, 10000000),
                 density |-> R(1786, 10000)],
     NEON |-> [specific_heat |-> R(1030, 1),
               thermal_conductivity |-> R(491, 10000),
               viscosity |-> R(313, 10000000),
               density |-> R(8999, 10000)]]

\* np.cos(np.radians(angle)) at the sampled angles; at 90 degrees numpy
\* returns 6.1e-17, which is 0 at the resolution of the model
CosDeg(angle) ==
    CASE angle = 0 -> One
      [] angle = 60 -> R(1, 2)
      [] angle = 90 -> Zero
      [] angle = 120 -> R(-1, 2)
      [] angle = 180 -> R(-1, 1)
      [] angle = 240 -> R(-1, 2)
      [] angle = 270 -> Zero
      [] angle = 300 -> R(1, 2)

\* np.sin at the same angles, the square root of 3 taken on the grid of
\* the roots
SinDeg(angle) ==
    CASE angle = 0 -> Zero
      [] angle = 60 -> RDiv(Root(R(3, 1), 2, SqrtDen), R(2, 1))
      [] angle = 90 -> One
      [] angle = 120 -> RDiv(Root(R(3, 1), 2, SqrtDen), R(2, 1))
      [] angle = 180 -> Zero
      [] angle = 240 -> RNeg(RDiv(Root(R(3, 1), 2, SqrtDen), R(2, 1)))
      [] angle = 270 -> R(-1, 1)
      [] angle = 300 -> RNeg(RDiv(Root(R(3, 1), 2, SqrtDen), R(2, 1)))

\* the local momentum_ratio of calculate_effectiveness
momentum_ratio(config, main_velocity) ==
    RMul(RMul(config.blowing_ratio,
              RDiv(COOLANT_PROPERTIES[config.coolant_type].density,
                   COOLANT_PROPERTIES["AIR"].density)),
         RPow(RDiv(config.coolant_velocity, main_velocity), 2))

\* the decay written with the exponent +0.2
x_plus_growth(x_plus) == Pow(x_plus, 1, 5)

\* x_plus ** (-0.2); 0.0 ** (-0.2) raises ZeroDivisionError
x_plus_decay(x_plus) == Pow(x_plus, -1, 5)

\* the correlation returned without the clamp
clamp_unit_missing(effectiveness) == effectiveness

\* max(0.0, min(1.0, effectiveness))
clamp_unit(effectiveness) == RMax(Zero, RMin(One, effectiveness))

\* FilmCoolingAnalysis.calculate_effectiveness, for Python floats with
\* slot_height > 0, main_velocity > 0, blowing_ratio >= 0 and x >= 0
calculate_effectiveness(config, x, main_temp, main_velocity) ==
    LET mr == momentum_ratio(config, main_velocity)
        x_plus == RDiv(x, config.slot_height)
        angle_factor == CosDeg(config.angle)
        decay == x_plus_decay(x_plus)
    IN  IF IsError(decay) THEN decay
        ELSE Num(clamp_unit(RMul(RMul(RMul(R(19, 10), Pow(mr, 1, 5).val),
                                      decay.val),
                                 angle_factor)))

\* main_temp - effectiveness * (main_temp - coolant_temp), each of the
\* three floating-point operations rounding its result
wall_temperature_mix(effectiveness, main_temp, coolant_temp) ==
    FloatRound(RSub(main_temp,
                    FloatRound(RMul(effectiveness,
                                    FloatRound(RSub(main_temp,
                                                    coolant_temp))))))

\* FilmCoolingAnalysis.calculate_wall_temperature
calculate_wall_temperature(config, x, main_temp, main_velocity) ==
    LET effectiveness ==
            calculate_effectiveness(config, x, main_temp, main_velocity)
    IN  IF IsError(effectiveness) THEN effectiveness
        ELSE Num(wall_temperature_mix(effectiveness.val, main_temp,
                                      config.coolant_temp))

\* the division carried out as numpy does, without raising
nusselt_over_x_numpy(Nu, x) ==
    IF x = Zero THEN (IF Nu = Zero THEN NaN ELSE Inf(1))
    ELSE Num(RDiv(RMul(Nu, COOLANT_PROPERTIES["AIR"].thermal_conductivity), x))

\* Nu * k_air / x; a float division by 0.0 raises ZeroDivisionError
nusselt_over_x(Nu, x) ==
    IF x = Zero THEN Raise("ZeroDivisionError")
    ELSE Num(RDiv(RMul(Nu, COOLANT_PROPERTIES["AIR"].thermal_conductivity), x))

\* FilmCoolingAnalysis.calculate_heat_transfer_coefficient, for Python
\* floats with x >= 0, main_velocity >= 0 and blowing_ratio >= 0; Re ** 0.8
\* is kept to the resolution of the fifth root
calculate_heat_transfer_coefficient(config, x, main_velocity) ==
    LET air == COOLANT_PROPERTIES["AIR"]
        Re == RDiv(RMul(RMul(main_velocity, x), air.density), air.viscosity)
        Nu == RMul(RMul(R(296, 10000), Round(Pow(Re, 4, 5).val, RootDen)),
                   Pow(config.blowing_ratio, 1, 5).val)
    IN  nusselt_over_x(Nu, x)

\* the first exception raised by the loop body over the samples, if any
FirstError(e, w, h) ==
    LET bad == {i \in DOMAIN e :
                   IsError(e[i]) \/ IsError(w[i]) \/ IsError(h[i])}
        i == CHOOSE j \in bad : \A k \in bad : j <= k
    IN  IF bad = {} THEN ""
        ELSE IF IsError(e[i]) THEN e[i].err
        ELSE IF IsError(w[i]) THEN w[i].err
        ELSE h[i].err

\* the samples evaluated from the last position to the first
analyze_cooling_performance_reversed(config, x_points, main_temp, main_velocity) ==
    LET n == Len(x_points)
        e == [i \in DOMAIN x_points |->
                calculate_effectiveness(config, x_points[n + 1 - i],
                                        main_temp, main_velocity)]
        w == [i \in DOMAIN x_points |->
                calculate_wall_temperature(config, x_points[n + 1 - i],
                                           main_temp, main_velocity)]
        h == [i \in DOMAIN x_points |->
                calculate_heat_transfer_coefficient(config,
                                                    x_points[n + 1 - i],
                                                    main_velocity)]
    IN  IF FirstError(e, w, h) # "" THEN
            [kind |-> "error", err |-> FirstError(e, w, h),
             effectiveness |-> <<>>, wall_temperature |-> <<>>,
             heat_transfer_coefficient |-> <<>>]
        ELSE [kind |-> "ok", err |-> "",
              effectiveness |-> e, wall_temperature |-> w,
              heat_transfer_coefficient |-> h]

\* analyze_cooling_performance: the three lists in input order, or the
\* exception of the first sample that raises
analyze_cooling_performance(config, x_points, main_temp, main_velocity) ==
    LET e == [i \in DOMAIN x_points |->
                calculate_effectiveness(config, x_points[i],
                                        main_temp, main_velocity)]
        w == [i \in DOMAIN x_points |->
                calculate_wall_temperature(config, x_points[i],
                                           main_temp, main_velocity)]
        h == [i \in DOMAIN x_points |->
                calculate_heat_transfer_coefficient(config, x_points[i],
                                                    main_velocity)]
    IN  IF FirstError(e, w, h) # "" THEN
            [kind |-> "error", err |-> FirstError(e, w, h),
             effectiveness |-> <<>>, wall_temperature |-> <<>>,
             heat_transfer_coefficient |-> <<>>]
        ELSE [kind |-> "ok", err |-> "",
              effectiveness |-> e, wall_temperature |-> w,
              heat_transfer_coefficient |-> h]

---------------------------------------------------------------------------
(* inlet_temperature.py, exit_temperature.py, exit_velocity.py,            *)
(* pressure_ratio.py and the expansion ratio of nozzle_geometry.py         *)

Two == <<2, 1>>

\* M used in place of M**2
mach_term_linear(M, gamma) ==
    FloatRound(RAdd(One, FloatRound(RMul(
        FloatRound(RDiv(FloatRound(RSub(gamma, One)), Two)), M))))

\* 1 + ((gamma - 1) / 2) * M**2, each operation rounded
mach_term(M, gamma) ==
    FloatRound(RAdd(One, FloatRound(RMul(
        FloatRound(RDiv(FloatRound(RSub(gamma, One)), Two)),
        FloatRound(RPow(M, 2))))))

\* the kinetic term subtracted
calc_total_temperature_minus(T, M, gamma) ==
    Num(FloatRound(RMul(T, RSub(Two, mach_term(M, gamma)))))

calc_total_temperature(T, M, gamma) ==
    Num(FloatRound(RMul(T, mach_term(M, gamma))))

\* divided by the Mach term of twice the Mach number
calc_static_exit_temperature_doubled(T0, Me, gamma) ==
    IF mach_term(RMul(Two, Me), gamma) = Zero THEN Raise("ZeroDivisionError")
    ELSE Num(FloatRound(RDiv(T0, mach_term(RMul(Two, Me), gamma))))

\* multiplied by the Mach term
calc_static_exit_temperature_times(T0, Me, gamma) ==
    Num(FloatRound(RMul(T0, mach_term(Me, gamma))))

calc_static_exit_temperature(T0, Me, gamma) ==
    IF mach_term(Me, gamma) = Zero THEN Raise("ZeroDivisionError")
    ELSE Num(FloatRound(RDiv(T0, mach_term(Me, gamma))))

\* the factor two left out of the radicand
calc_exit_velocity_half(cp, T0, Te) ==
    LET radicand == RMul(cp, RSub(T0, Te))
    IN  IF RLt(radicand, Zero) THEN Raise("ValueError")
        ELSE Num(Root(radicand, 2, SqrtDen))

\* the square root taken of the magnitude of the radicand
calc_exit_velocity_abs(cp, T0, Te) ==
    Num(Root(RAbs(RMul(RMul(Two, cp), RSub(T0, Te))), 2, SqrtDen))

calc_exit_velocity(cp, T0, Te) ==
    LET radicand == RMul(RMul(Two, cp), RSub(T0, Te))
    IN  IF RLt(radicand, Zero) THEN Raise("ValueError")
        ELSE Num(Root(radicand, 2, SqrtDen))

calc_pressure_ratio(Me, gamma) ==
    IF gamma = One THEN Raise("ZeroDivisionError")
    ELSE LET exponent == RDiv(RNeg(gamma), RSub(gamma, One))
         IN  Pow(mach_term(Me, gamma), exponent[1], exponent[2])

\* main, "Calculate flow parameters": T0 from the static temperature and the
\* inlet Mach number, Te from T0 and the exit Mach number, Ve from both; a
\* raise leaves the later names unassigned
flow_parameters(T_static, M_inlet, M_exit, gamma, cp) ==
    LET T0 == calc_total_temperature(T_static, M_inlet, gamma)
        Te == calc_static_exit_temperature(T0.val, M_exit, gamma)
    IN  IF IsError(Te) THEN [T0 |-> T0, Te |-> Te, Ve |-> Unassigned]
        ELSE [T0 |-> T0, Te |-> Te,
              Ve |-> calc_exit_velocity(cp, T0.val, Te.val)]

\* the ratio taken upside down
calculate_area_ratio_inverted(noz) ==
    IF noz.exit_area = Zero THEN Raise("ZeroDivisionError")
    ELSE Num(RDiv(noz.throat_area, noz.exit_area))

\* calculate_area_ratio: nozzle.exit_area / nozzle.throat_area
calculate_area_ratio(noz) ==
    IF noz.throat_area = Zero THEN Raise("ZeroDivisionError")
    ELSE Num(RDiv(noz.exit_area, noz.throat_area))

\* calculate_expansion_ratio; the nozzle argument is not used by the code
calculate_expansion_ratio(noz, gamma, M_exit) ==
    IF RAdd(gamma, One) = Zero \/ gamma = One THEN Raise("ZeroDivisionError")
    ELSE LET base == RDiv(mach_term(M_exit, gamma),
                          RDiv(RAdd(gamma, One), Two))
             exponent == RDiv(RAdd(gamma, One),
                              RMul(Two, RSub(gamma, One)))
         IN  Pow(base, exponent[1], exponent[2])

---------------------------------------------------------------------------
(* nozzle_geometry.py: the three nozzle classes *)

\* number of samples of np.linspace in BellNozzle._generate_contour
ContourSamples == 100

NoNozzle == [cls |-> "None"]

Done == [kind |-> "ok", val |-> Zero, err |-> ""]

\* ConvergentDivergentNozzle.__init__: the dataclass fields and two angles
ConvergentDivergentNozzle(throat_area, exit_area, length) ==
    [cls |-> "ConvergentDivergentNozzle", throat_area |-> throat_area,
     exit_area |-> exit_area, length |-> length,
     convergent_angle |-> 30, divergent_angle |-> 15]

\* EllipticNozzle.__init__
EllipticNozzle(throat_area, exit_area, length, num_lobes, lobe_angle) ==
    [cls |-> "EllipticNozzle", throat_area |-> throat_area,
     exit_area |-> exit_area, length |-> length,
     num_lobes |-> num_lobes, lobe_angle |-> lobe_angle]

\* the radius widened in proportion to lobe_angle
get_lobe_points_widened(self, x) ==
    IF self.num_lobes <= 0 THEN [kind |-> "ok", err |-> "", val |-> <<>>]
    ELSE IF self.length = Zero THEN
        [kind |-> "error", err |-> "ZeroDivisionError", val |-> <<>>]
    ELSE LET r == RMul(RDiv(self.lobe_angle, R(45, 1)),
                       RAdd(self.throat_area,
                            RMul(RSub(self.exit_area, self.throat_area),
                                 RDiv(x, self.length))))
             angle(i) == (360 * (i - 1)) \div self.num_lobes
         IN  [kind |-> "ok", err |-> "",
              val |-> [i \in 1..self.num_lobes |->
                          <<x, RMul(r, CosDeg(angle(i))),
                            RMul(r, SinDeg(angle(i)))>>]]

\* EllipticNozzle.get_lobe_points: one (x, y, z) per lobe, lobe i at the
\* angle 2 * pi * i / num_lobes (in degrees here), all at the radius
\* interpolated at x; x / self.length divides by zero for a zero length
get_lobe_points(self, x) ==
    IF self.num_lobes <= 0 THEN [kind |-> "ok", err |-> "", val |-> <<>>]
    ELSE IF self.length = Zero THEN
        [kind |-> "error", err |-> "ZeroDivisionError", val |-> <<>>]
    ELSE LET r == RAdd(self.throat_area,
                       RMul(RSub(self.exit_area, self.throat_area),
                            RDiv(x, self.length)))
             angle(i) == (360 * (i - 1)) \div self.num_lobes
         IN  [kind |-> "ok", err |-> "",
              val |-> [i \in 1..self.num_lobes |->
                          <<x, RMul(r, CosDeg(angle(i))),
                            RMul(r, SinDeg(angle(i)))>>]]

\* x ** 3 of a float: pow rounds its result; the cube is taken here as
\* two products, each rounded
cube(x) == FloatMul(FloatMul(x, x), x)

\* np.linspace(0, stop, num) without its last sample:
\* np.linspace(0, stop, num, endpoint=False)
linspace_open(stop, num) ==
    TheOne({[i \in 1..num |-> FloatMul(R(i - 1, 1), step)] :
               step \in {FloatRound(RDiv(stop, R(num, 1)))}})

\* np.linspace(0, stop, num): step = stop / (num - 1), the samples are
\* arange(num) * step and the last one is then set to stop itself
linspace(stop, num) ==
    TheOne({[i \in 1..num |->
                IF i = num THEN stop ELSE FloatMul(R(i - 1, 1), step)] :
               step \in {FloatRound(RDiv(stop, R(num - 1, 1)))}})

\* BellNozzle._generate_contour, for length # 0: the list of (x, y) pairs,
\* every floating-point operation rounding its result
generate_contour(throat_area, exit_area, length) ==
    TheOne({[i \in 1..ContourSamples |->
                <<x[i], FloatRound(RAdd(throat_area,
                                        FloatMul(a, cube(x[i]))))>>] :
               x \in {linspace(length, ContourSamples)},
               a \in {FloatRound(RDiv(FloatRound(RSub(exit_area,
                                                      throat_area)),
                                      cube(length)))}})

\* BellNozzle.__init__, for length # 0
BellNozzle(throat_area, exit_area, length, wall_angle) ==
    [cls |-> "BellNozzle", throat_area |-> throat_area,
     exit_area |-> exit_area, length |-> length, wall_angle |-> wall_angle,
     contour_points |-> generate_contour(throat_area, exit_area, length)]

\* the outcome of BellNozzle(...): length ** 3 == 0 divides by zero
bell_outcome(length) ==
    IF length = Zero THEN Raise("ZeroDivisionError") ELSE Done

---------------------------------------------------------------------------
(* gui.py: the wall drawn for a convergent-divergent nozzle *)

PlotSamples == 100

\* NozzleCanvas._plot_convergent_divergent: the (x, r) pairs handed to
\* axes.plot; x is np.linspace(0, length, 100), the samples with
\* x < 0.3 * length take the convergent expression and the others the
\* divergent one.  A zero length divides 0.0 by 0.0 in every sample.
plot_convergent_divergent(noz) ==
    LET throat == RMul(noz.length, R(3, 10))
        x == [i \in 1..PlotSamples |->
                RMul(noz.length, R(i - 1, PlotSamples - 1))]
        convergent(xi) ==
            RAdd(noz.exit_area,
                 RMul(RSub(noz.throat_area, noz.exit_area),
                      RSub(One, RDiv(xi, throat))))
        divergent(xi) ==
            RAdd(noz.throat_area,
                 RDiv(RMul(RSub(noz.exit_area, noz.throat_area),
                           RSub(xi, throat)),
                      RMul(noz.length, R(7, 10))))
    IN  IF noz.length = Zero THEN NaN
        ELSE Num([i \in 1..PlotSamples |->
                    <<x[i], IF RLt(x[i], throat) THEN convergent(x[i])
                            ELSE divergent(x[i])>>])

---------------------------------------------------------------------------
(* cfd_integration.py: the comparison with analytical results *)

\* results read for the thrust
get_results_thrust == [key \in {"thrust"} |-> R(950, 1)]

\* OpenFOAMIntegration.get_results: the placeholder returns an empty dict
get_results == <<>>

\* the error taken relative to the observed value
relative_error_by_observed(observed, analytical, okind) ==
    IF observed = Zero THEN
        (IF okind = "ndarray" THEN
            (IF analytical = Zero THEN NaN ELSE Inf(1))
         ELSE Raise("ZeroDivisionError"))
    ELSE Num(RDiv(RAbs(RSub(observed, analytical)), observed))

\* abs(cfd - analytical) / analytical for one parameter; the observed
\* values are Python floats ("float") or numpy arrays ("ndarray")
relative_error(observed, analytical, okind) ==
    IF analytical = Zero THEN
        (IF okind = "ndarray" THEN
            (IF observed = Zero THEN NaN ELSE Inf(1))
         ELSE Raise("ZeroDivisionError"))
    ELSE Num(RDiv(RAbs(RSub(observed, analytical)), analytical))

\* abs(cfd - analytical)
absolute_error(observed, analytical) == Num(RAbs(RSub(observed, analytical)))

\* the keys on which the loop of validate_with_analytical computes metrics
compared_keys(analytical_results, cfd_results) ==
    {key \in DOMAIN analytical_results : key \in DOMAIN cfd_results}

\* the loop without its membership test: a key missing from cfd_results
\* raises KeyError
validation_metrics_unguarded(analytical_results, cfd_results, okind) ==
    IF \E key \in DOMAIN analytical_results : key \notin DOMAIN cfd_results
    THEN [kind |-> "error", err |-> "KeyError", val |-> <<>>]
    ELSE LET metrics == [key \in DOMAIN analytical_results |->
                 [relative_error |-> relative_error(cfd_results[key],
                                        analytical_results[key], okind),
                  absolute_error |-> absolute_error(cfd_results[key],
                                        analytical_results[key])]]
         IN  IF \E key \in DOMAIN metrics :
                    IsError(metrics[key].relative_error)
             THEN [kind |-> "error", err |-> "ZeroDivisionError",
                   val |-> <<>>]
             ELSE [kind |-> "ok", err |-> "", val |-> metrics]

\* the loop of validate_with_analytical over the analytical results, given
\* the mapping cfd_results: the validation dict, or the exception raised
validation_metrics(analytical_results, cfd_results, okind) ==
    LET keys == compared_keys(analytical_results, cfd_results)
        metrics == [key \in keys |->
            [relative_error |-> relative_error(cfd_results[key],
                                               analytical_results[key], okind),
             absolute_error |-> absolute_error(cfd_results[key],
                                               analytical_results[key])]]
    IN  IF \E key \in keys : IsError(metrics[key].relative_error)
        THEN [kind |-> "error", err |-> "ZeroDivisionError", val |-> <<>>]
        ELSE [kind |-> "ok", err |-> "", val |-> metrics]

\* OpenFOAMIntegration.validate_with_analytical
validate_with_analytical(analytical_results) ==
    validation_metrics(analytical_results, get_results, "ndarray")

\* Python's None where a CFDConfig is expected
NoConfig == [cls |-> "None"]

\* create_cfd_config with its defaults, but for the turbulence model
create_cfd_config(turbulence_model) ==
    [cls |-> "CFDConfig", mesh_resolution |-> 100,
     turbulence_model |-> turbulence_model, wall_treatment |-> "wallFunction",
     max_iterations |-> 1000, convergence_criteria |-> R(1, 1000000),
     time_step |-> R(1, 1000000), end_time |-> R(1, 10)]

\* OpenFOAMIntegration.__init__: the configuration is unset; with the
\* object go the directories and files under its case directory and the
\* programs it has started
OpenFOAMIntegration ==
    [config |-> NoConfig, dirs |-> {}, files |-> {}, launched |-> <<>>]

\* what a method call leaves behind: the object and the outcome
After(self, outcome) == [self |-> self, outcome |-> outcome]

\* the methods the class OpenFOAMIntegration defines
DefinedMethods ==
    {"setup_case", "_create_case_structure", "_write_control_dict",
     "_write_fv_schemes", "_write_turbulence_properties", "_generate_mesh",
     "run_simulation", "get_results", "validate_with_analytical"}

\* the methods setup_case calls on self, in order
SetupSteps ==
    <<"_create_case_structure", "_write_control_dict", "_write_fv_schemes",
      "_write_fv_solution", "_write_turbulence_properties",
      "_write_boundary_conditions", "_generate_mesh">>

\* one method called by setup_case, all of which are defined: the
\* directories made and the files written; the f-strings of controlDict
\* and turbulenceProperties read attributes of self.config, and
\* _generate_mesh starts by calling _write_block_mesh_dict
setup_step(self, step) ==
    CASE step = "_create_case_structure" ->
            After([self EXCEPT !.dirs = @ \cup {"0", "constant", "system"}],
                  Done)
      [] step = "_write_control_dict" ->
            IF self.config = NoConfig THEN After(self, Raise("AttributeError"))
            ELSE After([self EXCEPT !.files = @ \cup {"system/controlDict"}],
                       Done)
      [] step = "_write_fv_schemes" ->
            After([self EXCEPT !.files = @ \cup {"system/fvSchemes"}],
                  Done)
      [] step = "_write_turbulence_properties" ->
            IF self.config = NoConfig THEN After(self, Raise("AttributeError"))
            ELSE After([self EXCEPT
                           !.files = @ \cup {"constant/turbulenceProperties"}],
                       Done)
      [] step = "_generate_mesh" ->
            IF "_write_block_mesh_dict" \in DefinedMethods
            THEN After([self EXCEPT !.launched = Append(@, "blockMesh")],
                       Done)
            ELSE After(self, Raise("AttributeError"))

RECURSIVE setup_steps(_, _)
\* the calls of setup_case one after the other: a name the class does not
\* define raises AttributeError, and an exception ends the sequence
setup_steps(self, steps) ==
    IF steps = <<>> THEN After(self, Done)
    ELSE IF Head(steps) \notin DefinedMethods
         THEN After(self, Raise("AttributeError"))
    ELSE LET done == setup_step(self, Head(steps))
         IN  IF IsError(done.outcome) THEN done
             ELSE setup_steps(done.self, Tail(steps))

\* OpenFOAMIntegration.setup_case: the configuration is stored first, then
\* the case directory is made (which fails where the process may not
\* write), then the steps run
setup_case(self, nozzle_geometry, flow_conditions, cfd_config, writable) ==
    LET configured == [self EXCEPT !.config = cfd_config]
    IN  IF ~writable THEN After(configured, Raise("PermissionError"))
        ELSE setup_steps([configured EXCEPT !.dirs = @ \cup {"."}],
                         SetupSteps)

\* the solver started whatever the configuration
run_simulation_unchecked(self, installed) ==
    IF "." \notin self.dirs \/ ~installed
    THEN After(self, Raise("FileNotFoundError"))
    ELSE After([self EXCEPT !.launched = Append(@, "rhoCentralFoam")],
               Done)

\* OpenFOAMIntegration.run_simulation: ValueError while the configuration
\* is unset; otherwise subprocess.run starts rhoCentralFoam in the case
\* directory, which raises when the directory or the program is missing
run_simulation(self, installed) ==
    IF self.config = NoConfig THEN After(self, Raise("ValueError"))
    ELSE IF "." \notin self.dirs \/ ~installed
         THEN After(self, Raise("FileNotFoundError"))
    ELSE After([self EXCEPT !.launched = Append(@, "rhoCentralFoam")],
               Done)

---------------------------------------------------------------------------
(* main.py: reading numbers from the console and building the inputs.  A    *)
(* reader takes the lines still to be typed and returns its outcome, the    *)
(* lines left and the text it wrote.                                         *)

\* no call of main is under way
NoFrame == [pc |-> "none"]

\* the default argument of get_float and get_int: None or a number
None == [has |-> FALSE, val |-> Zero]
Default(v) == [has |-> TRUE, val |-> v]

\* the lines int() accepts, and the lines float() accepts
IntLines == {"0", "1", "2", "3", "7"}
FloatLines == IntLines \cup {"2.5"}

\* float(value), and int(value), of an accepted line
ParseNumber(value) ==
    CASE value = "0" -> Zero
      [] value = "1" -> One
      [] value = "2" -> <<2, 1>>
      [] value = "3" -> <<3, 1>>
      [] value = "7" -> <<7, 1>>
      [] value = "2.5" -> <<5, 2>>

InvalidNumber == "Invalid number, try again."

Read(kind, val, err, rest, out) ==
    [kind |-> kind, val |-> val, err |-> err, rest |-> rest, out |-> out]

RECURSIVE read_number(_, _, _, _)
\* the loop shared by get_float and get_int: input(prompt) writes the prompt
\* and raises EOFError at the end of the input; an empty line returns a
\* default that is not None; a line that does not parse prints the message
\* and prompts again
read_number(accepted, prompt, default, lines) ==
    IF lines = <<>> THEN Read("error", Zero, "EOFError", <<>>, <<prompt>>)
    ELSE IF Head(lines) = "" /\ default.has THEN
        Read("num", default.val, "", Tail(lines), <<prompt>>)
    ELSE IF Head(lines) \in accepted THEN
        Read("num", ParseNumber(Head(lines)), "", Tail(lines), <<prompt>>)
    ELSE LET again == read_number(accepted, prompt, default, Tail(lines))
         IN  [again EXCEPT !.out = <<prompt, InvalidNumber>> \o @]

get_float(prompt, default, lines) ==
    read_number(FloatLines, prompt, default, lines)

\* get_int converting with float()
get_int_as_float(prompt, default, lines) ==
    read_number(FloatLines, prompt, default, lines)

get_int(prompt, default, lines) ==
    read_number(IntLines, prompt, default, lines)

\* the handler of create_nozzle: print the error and sys.exit(1)
nozzle_error(rest, out) ==
    Read("error", NoNozzle, "SystemExit", rest, out \o <<"Error creating nozzle">>)

\* the else branch of create_nozzle written without its message
default_nozzle_silent(throat_area, exit_area, length, rest) ==
    Read("ok", ConvergentDivergentNozzle(throat_area, exit_area, length), "",
         rest, <<>>)

\* the else branch of create_nozzle: any other choice
default_nozzle(throat_area, exit_area, length, rest) ==
    Read("ok", ConvergentDivergentNozzle(throat_area, exit_area, length), "",
         rest, <<"Invalid choice, defaulting to conventional nozzle">>)

\* the try block of create_nozzle
build_nozzle(choice, throat_area, exit_area, length, lines) ==
    IF choice = One THEN
        Read("ok", ConvergentDivergentNozzle(throat_area, exit_area, length),
             "", lines, <<>>)
    ELSE IF choice = <<2, 1>> THEN
        Bind(get_int("Number of lobes (default 4): ", Default(<<4, 1>>),
                     lines), LAMBDA num_lobes :
        Bind(get_float("Lobe angle in degrees (default 45): ",
                       Default(<<45, 1>>), num_lobes.rest),
             LAMBDA lobe_angle :
            IF IsError(num_lobes) THEN nozzle_error(<<>>, num_lobes.out)
            ELSE IF IsError(lobe_angle) THEN
                nozzle_error(<<>>, num_lobes.out \o lobe_angle.out)
            ELSE Read("ok",
                      EllipticNozzle(throat_area, exit_area, length,
                                     num_lobes.val[1], lobe_angle.val),
                      "", lobe_angle.rest, num_lobes.out \o lobe_angle.out)))
    ELSE IF choice = <<3, 1>> THEN
        Bind(get_float("Wall angle in degrees (default 15): ",
                       Default(<<15, 1>>), lines), LAMBDA wall_angle :
            IF IsError(wall_angle) THEN nozzle_error(<<>>, wall_angle.out)
            ELSE IF IsError(bell_outcome(length)) THEN
                nozzle_error(wall_angle.rest, wall_angle.out)
            ELSE Read("ok",
                      BellNozzle(throat_area, exit_area, length,
                                 wall_angle.val),
                      "", wall_angle.rest, wall_angle.out))
    ELSE default_nozzle(throat_area, exit_area, length, lines)

NozzleMenu ==
    <<"Select nozzle type:", "1. Convergent-Divergent (Conventional)",
      "2. Elliptic (with lobes)", "3. Bell-shaped">>

\* create_nozzle: the four reads before the try block let EOFError through
create_nozzle(lines) ==
    Bind(get_int("Enter choice (1-3): ", None, lines), LAMBDA choice :
    Bind(get_float("Throat area (m2): ", None, choice.rest),
         LAMBDA throat_area :
    Bind(get_float("Exit area (m2): ", None, throat_area.rest),
         LAMBDA exit_area :
    Bind(get_float("Nozzle length (m): ", None, exit_area.rest),
         LAMBDA length :
        LET out1 == NozzleMenu \o choice.out
            out2 == out1 \o throat_area.out
            out3 == out2 \o exit_area.out
            out4 == out3 \o length.out
        IN  IF IsError(choice) THEN
                Read("error", NoNozzle, "EOFError", <<>>, out1)
            ELSE IF IsError(throat_area) THEN
                Read("error", NoNozzle, "EOFError", <<>>, out2)
            ELSE IF IsError(exit_area) THEN
                Read("error", NoNozzle, "EOFError", <<>>, out3)
            ELSE IF IsError(length) THEN
                Read("error", NoNozzle, "EOFError", <<>>, out4)
            ELSE Bind(build_nozzle(choice.val, throat_area.val,
                                   exit_area.val, length.val, length.rest),
                      LAMBDA built : [built EXCEPT !.out = out4 \o @])))))

\* the dict lookup of get_cooling_config: .get(coolant_choice, AIR)
coolant_of_choice(coolant_choice) ==
    CASE coolant_choice = One -> "AIR"
      [] coolant_choice = <<2, 1>> -> "HELIUM"
      [] coolant_choice = <<3, 1>> -> "NEON"
      [] OTHER -> "AIR"

CoolingMenu == <<"Film Cooling Configuration:", "1. Air", "2. Helium", "3. Neon">>

CoolingPrompts ==
    <<"Injection angle from wall (degrees): ", "Slot height (m): ",
      "Slot width (m): ", "Blowing ratio: ", "Coolant temperature (K): ",
      "Coolant injection velocity (m/s): ">>

RECURSIVE read_floats(_, _)
\* get_float called once for each prompt in turn, stopping at EOFError:
\* val holds the numbers read
read_floats(prompts, lines) ==
    IF prompts = <<>> THEN Read("ok", <<>>, "", lines, <<>>)
    ELSE LET first == get_float(Head(prompts), None, lines)
             others == read_floats(Tail(prompts), first.rest)
         IN  IF IsError(first) THEN
                 Read("error", <<>>, "EOFError", <<>>, first.out)
             ELSE [others EXCEPT !.val = <<first.val>> \o @,
                                 !.out = first.out \o @]

\* get_cooling_config: the choice is read before the try block; inside it
\* any exception prints the error and ends in sys.exit(1)
get_cooling_config(lines) ==
    LET coolant_choice == get_int("Select coolant type (1-3): ", None, lines)
        fields == read_floats(CoolingPrompts, coolant_choice.rest)
        asked == CoolingMenu \o coolant_choice.out
    IN  IF IsError(coolant_choice) THEN
            Read("error", <<>>, "EOFError", <<>>, asked)
        ELSE IF IsError(fields) THEN
            Read("error", <<>>, "SystemExit", <<>>,
                 asked \o fields.out
                 \o <<"Error creating cooling configuration">>)
        ELSE Read("ok",
                  [angle |-> fields.val[1], slot_height |-> fields.val[2],
                   slot_width |-> fields.val[3],
                   blowing_ratio |-> fields.val[4],
                   coolant_type |-> coolant_of_choice(coolant_choice.val),
                   coolant_temp |-> fields.val[5],
                   coolant_velocity |-> fields.val[6]],
                  "", fields.rest, asked \o fields.out)

\* the handler of get_cfd_config: print the error and sys.exit(1)
cfd_config_error(out) ==
    Read("error", NoConfig, "SystemExit", <<>>,
         out \o <<"Error creating CFD configuration">>)

CFDPrompts ==
    <<"Convergence criteria (default 1e-6): ", "Time step (default 1e-6): ",
      "End time (default 0.1): ">>

CFDDefaults ==
    <<Default(R(1, 1000000)), Default(R(1, 1000000)), Default(R(1, 10))>>

RECURSIVE read_floats_with_defaults(_, _, _)
\* get_float called once for each prompt with its default argument,
\* stopping at EOFError: val holds the numbers read
read_floats_with_defaults(prompts, defaults, lines) ==
    IF prompts = <<>> THEN Read("ok", <<>>, "", lines, <<>>)
    ELSE Bind(get_float(Head(prompts), Head(defaults), lines), LAMBDA first :
        IF IsError(first) THEN Read("error", <<>>, "EOFError", <<>>, first.out)
        ELSE Bind(read_floats_with_defaults(Tail(prompts), Tail(defaults),
                                            first.rest), LAMBDA others :
            [others EXCEPT !.val = <<first.val>> \o @,
                           !.out = first.out \o @]))

TurbulenceMenu == <<"Turbulence Model:", "1. k-epsilon", "2. k-omega SST">>
WallMenu == <<"Wall Treatment:", "1. Wall Functions", "2. Low Reynolds">>

\* get_cfd_config: every read is inside the try block, so the end of the
\* input ends in sys.exit(1); a model choice other than 1 selects
\* kOmegaSST and a wall choice other than 1 selects lowRe
get_cfd_config(lines) ==
    Bind(get_int("Mesh resolution (default 100): ", Default(R(100, 1)), lines),
         LAMBDA mesh_resolution :
    Bind(get_int("Select model (1-2): ", None, mesh_resolution.rest),
         LAMBDA model_choice :
    Bind(get_int("Select treatment (1-2): ", None, model_choice.rest),
         LAMBDA wall_choice :
    Bind(get_int("Maximum iterations (default 1000): ", Default(R(1000, 1)),
                 wall_choice.rest),
         LAMBDA max_iterations :
    Bind(read_floats_with_defaults(CFDPrompts, CFDDefaults,
                                   max_iterations.rest),
         LAMBDA criteria :
        LET out1 == <<"CFD Configuration:">> \o mesh_resolution.out
            out2 == out1 \o TurbulenceMenu \o model_choice.out
            out3 == out2 \o WallMenu \o wall_choice.out
            out4 == out3 \o max_iterations.out
            out5 == out4 \o criteria.out
            turbulence_model ==
                IF model_choice.val = One THEN "kEpsilon" ELSE "kOmegaSST"
            wall_treatment ==
                IF wall_choice.val = One THEN "wallFunction" ELSE "lowRe"
        IN  IF IsError(mesh_resolution) THEN cfd_config_error(out1)
            ELSE IF IsError(model_choice) THEN cfd_config_error(out2)
            ELSE IF IsError(wall_choice) THEN cfd_config_error(out3)
            ELSE IF IsError(max_iterations) THEN cfd_config_error(out4)
            ELSE IF IsError(criteria) THEN cfd_config_error(out5)
            ELSE Read("ok",
                      [create_cfd_config(turbulence_model) EXCEPT
                          !.mesh_resolution = mesh_resolution.val[1],
                          !.wall_treatment = wall_treatment,
                          !.max_iterations = max_iterations.val[1],
                          !.convergence_criteria = criteria.val[1],
                          !.time_step = criteria.val[2],
                          !.end_time = criteria.val[3]],
                      "", criteria.rest, out5))))))

\* calc_thrust(mdot, Ve, Pe, Pa, Ae) = mdot * Ve + (Pe - Pa) * Ae
calc_thrust(mdot, Ve, Pe, Pa, Ae) ==
    RAdd(RMul(mdot, Ve), RMul(RSub(Pe, Pa), Ae))

\* the positions with the injection point left out
analysis_points_downstream(length) ==
    [i \in 1..10 |-> RDiv(RMul(length, R(i, 1)), R(10, 1))]

\* main, "every 10% of nozzle length":
\* [nozzle.length * i / 10 for i in range(11)]
analysis_points(length) ==
    [i \in 1..11 |-> RDiv(RMul(length, R(i - 1, 1)), R(10, 1))]

---------------------------------------------------------------------------
(* Sampled inputs *)

Angles == {0, 60, 90, 120}
SlotHeights == {R(1, 1000), R(2, 1000)}
BlowingRatios == {R(1, 2), Two}
CoolantTemps == {R(300, 1), R(304, 10)}
CoolantVelocities == {One}
InjectionConfigs ==
    [angle : Angles, slot_height : SlotHeights, slot_width : {R(1, 100)},
     blowing_ratio : BlowingRatios, coolant_type : CoolantType,
     coolant_temp : CoolantTemps, coolant_velocity : CoolantVelocities]

XValues == {Zero, R(1, 1000), R(32, 1000)}
XPointLists == UNION {[1..n -> XValues] : n \in 0..MaxPoints}
MainTemps == {R(20, 1), R(1000, 1)}
MainVelocities == {One, Two}

Temperatures == {Zero, R(175, 1), R(300, 1), R(315, 1), R(580, 1)}
MachNumbers == {Zero, R(1, 2), Two}
Gammas == {Zero, R(1, 2), One, R(7, 5)}
SpecificHeats == {Zero, R(1005, 1)}

ThroatAreas == {R(-1, 1), Zero, Two}
ExitAreas == {R(8, 1)}
Lengths == {R(-1, 1), Zero, R(5, 1)}
\* the lengths of the bell nozzles
BellLengths == Lengths \cup {R(27, 10)}
LobeCounts == {4, 6}
LobeAngles == {R(45, 1), R(60, 1)}
WallAngles == {R(15, 1), R(20, 1)}

\* the positions at which the lobes are asked for
LobeXs == {Zero, R(3, 2)}
ParamNames == {"thrust", "exit_velocity", "exit_temperature"}
AnalyticalValues == {R(-1000, 1), Zero, R(1000, 1)}
ObservedValues == {Zero, R(950, 1), R(1000, 1)}
Mappings(values) == UNION {[keys -> values] : keys \in SUBSET ParamNames}
ObservedKinds == {"float", "ndarray"}

---------------------------------------------------------------------------
(* The calls.  A call of a function is drawn with its arguments in the       *)
(* initial state and its action computes the outcome.  The functions that   *)
(* take a nozzle object are called on the object a constructor has left.    *)

Pending == [kind |-> "pending", val |-> Zero, err |-> ""]

FilmCalls ==
    [op : {"calculate_effectiveness", "calculate_wall_temperature"},
     config : InjectionConfigs, x : XValues, main_temp : MainTemps,
     main_velocity : MainVelocities]
    \cup [op : {"calculate_heat_transfer_coefficient"},
          config : InjectionConfigs, x : XValues,
          main_velocity : MainVelocities]
    \cup [op : {"analyze_cooling_performance"}, config : InjectionConfigs,
          x_points : XPointLists, main_temp : MainTemps,
          main_velocity : MainVelocities]

FlowCalls ==
    [op : {"calc_total_temperature"}, T : Temperatures, M : MachNumbers,
     gamma : Gammas]
    \cup [op : {"calc_static_exit_temperature"}, T0 : Temperatures,
          Me : MachNumbers, gamma : Gammas]
    \cup [op : {"calc_exit_velocity"}, cp : SpecificHeats, T0 : Temperatures,
          Te : Temperatures]
    \cup [op : {"calc_pressure_ratio"}, Me : MachNumbers, gamma : Gammas]

\* the Mach numbers typed at main's prompts, which take any number
MainMachNumbers == MachNumbers \cup {R(-2, 1)}

MainCalls ==
    [op : {"flow_parameters"}, T_static : Temperatures,
     M_inlet : MainMachNumbers, M_exit : MainMachNumbers, gamma : Gammas,
     cp : SpecificHeats]

NozzleCalls ==
    [op : {"ConvergentDivergentNozzle"}, throat_area : ThroatAreas,
     exit_area : ExitAreas, length : Lengths]
    \cup [op : {"EllipticNozzle"}, throat_area : ThroatAreas,
          exit_area : ExitAreas, length : Lengths, num_lobes : LobeCounts,
          lobe_angle : LobeAngles]
    \cup [op : {"BellNozzle"}, throat_area : ThroatAreas,
          exit_area : ExitAreas, length : BellLengths,
          wall_angle : WallAngles]

Init ==
    /\ call \in FilmCalls \cup FlowCalls \cup MainCalls \cup NozzleCalls
    /\ result = Pending
    /\ nozzle = NoNozzle
    /\ stdin = <<>>
    /\ stdout = <<>>
    /\ cfd = OpenFOAMIntegration
    /\ frame = NoFrame

Starts(op) == call.op = op /\ result = Pending

Call_calculate_effectiveness ==
    /\ Starts("calculate_effectiveness")
    /\ result' = calculate_effectiveness(call.config, call.x, call.main_temp,
                                         call.main_velocity)
    /\ UNCHANGED <<call, nozzle, stdin, stdout, cfd, frame>>

Call_calculate_wall_temperature ==
    /\ Starts("calculate_wall_temperature")
    /\ result' = calculate_wall_temperature(call.config, call.x,
                                            call.main_temp, call.main_velocity)
    /\ UNCHANGED <<call, nozzle, stdin, stdout, cfd, frame>>

Call_calculate_heat_transfer_coefficient ==
    /\ Starts("calculate_heat_transfer_coefficient")
    /\ result' = calculate_heat_transfer_coefficient(call.config, call.x,
                                                     call.main_velocity)
    /\ UNCHANGED <<call, nozzle, stdin, stdout, cfd, frame>>

Call_analyze_cooling_performance ==
    /\ Starts("analyze_cooling_performance")
    /\ result' = analyze_cooling_performance(call.config, call.x_points,
                                             call.main_temp,
                                             call.main_velocity)
    /\ UNCHANGED <<call, nozzle, stdin, stdout, cfd, frame>>

Call_calc_total_temperature ==
    /\ Starts("calc_total_temperature")
    /\ result' = calc_total_temperature(call.T, call.M, call.gamma)
    /\ UNCHANGED <<call, nozzle, stdin, stdout, cfd, frame>>

Call_calc_static_exit_temperature ==
    /\ Starts("calc_static_exit_temperature")
    /\ result' = calc_static_exit_temperature(call.T0, call.Me, call.gamma)
    /\ UNCHANGED <<call, nozzle, stdin, stdout, cfd, frame>>

Call_calc_exit_velocity ==
    /\ Starts("calc_exit_velocity")
    /\ result' = calc_exit_velocity(call.cp, call.T0, call.Te)
    /\ UNCHANGED <<call, nozzle, stdin, stdout, cfd, frame>>

Call_flow_parameters ==
    /\ Starts("flow_parameters")
    /\ result' = flow_parameters(call.T_static, call.M_inlet, call.M_exit,
                                 call.gamma, call.cp)
    /\ UNCHANGED <<call, nozzle, stdin, stdout, cfd, frame>>

Call_calc_pressure_ratio ==
    /\ Starts("calc_pressure_ratio")
    /\ result' = calc_pressure_ratio(call.Me, call.gamma)
    /\ UNCHANGED <<call, nozzle, stdin, stdout, cfd, frame>>

Call_ConvergentDivergentNozzle ==
    /\ Starts("ConvergentDivergentNozzle")
    /\ result' = Done
    /\ nozzle' = ConvergentDivergentNozzle(call.throat_area, call.exit_area,
                                           call.length)
    /\ UNCHANGED <<call, stdin, stdout, cfd, frame>>

Call_EllipticNozzle ==
    /\ Starts("EllipticNozzle")
    /\ result' = Done
    /\ nozzle' = EllipticNozzle(call.throat_area, call.exit_area, call.length,
                                call.num_lobes, call.lobe_angle)
    /\ UNCHANGED <<call, stdin, stdout, cfd, frame>>

\* a constructor that raises leaves the caller without an object
Call_BellNozzle ==
    /\ Starts("BellNozzle")
    /\ result' = bell_outcome(call.length)
    /\ nozzle' = IF IsError(bell_outcome(call.length)) THEN nozzle
                 ELSE BellNozzle(call.throat_area, call.exit_area,
                                 call.length, call.wall_angle)
    /\ UNCHANGED <<call, stdin, stdout, cfd, frame>>

\* called on a constructed nozzle, which the function then ignores
Call_calculate_expansion_ratio ==
    \E gamma \in Gammas, M_exit \in MachNumbers :
        /\ nozzle # NoNozzle
        /\ call' = [op |-> "calculate_expansion_ratio", gamma |-> gamma,
                    M_exit |-> M_exit]
        /\ result' = calculate_expansion_ratio(nozzle, gamma, M_exit)
        /\ UNCHANGED <<nozzle, stdin, stdout, cfd, frame>>

Call_calculate_area_ratio ==
    /\ nozzle # NoNozzle
    /\ call' = [op |-> "calculate_area_ratio"]
    /\ result' = calculate_area_ratio(nozzle)
    /\ UNCHANGED <<nozzle, stdin, stdout, cfd, frame>>

Call_get_lobe_points ==
    \E x \in LobeXs :
        /\ nozzle # NoNozzle
        /\ nozzle.cls = "EllipticNozzle"
        /\ call' = [op |-> "get_lobe_points", x |-> x]
        /\ result' = get_lobe_points(nozzle, x)
        /\ UNCHANGED <<nozzle, stdin, stdout, cfd, frame>>

Call_plot_convergent_divergent ==
    /\ nozzle # NoNozzle
    /\ nozzle.cls = "ConvergentDivergentNozzle"
    /\ call' = [op |-> "plot_convergent_divergent"]
    /\ result' = plot_convergent_divergent(nozzle)
    /\ UNCHANGED <<nozzle, stdin, stdout, cfd, frame>>

Next ==
    \/ Call_calculate_effectiveness
    \/ Call_calculate_wall_temperature
    \/ Call_calculate_heat_transfer_coefficient
    \/ Call_analyze_cooling_performance
    \/ Call_calc_total_temperature
    \/ Call_calc_static_exit_temperature
    \/ Call_calc_exit_velocity
    \/ Call_calc_pressure_ratio
    \/ Call_flow_parameters
    \/ Call_ConvergentDivergentNozzle
    \/ Call_EllipticNozzle
    \/ Call_BellNozzle
    \/ Call_calculate_expansion_ratio
    \/ Call_calculate_area_ratio
    \/ Call_plot_convergent_divergent
    \/ Call_get_lobe_points

Spec == Init /\ [][Next]_vars

\* The comparison loop of validate_with_analytical applied to an observed
\* mapping supplied in place of the placeholder result of get_results
CompareCalls ==
    [op : {"validation_metrics"},
     analytical_results : Mappings(AnalyticalValues),
     cfd_results : Mappings(ObservedValues), okind : ObservedKinds]

InitCompare ==
    /\ call \in CompareCalls
    /\ result = Pending
    /\ nozzle = NoNozzle
    /\ stdin = <<>>
    /\ stdout = <<>>
    /\ cfd = OpenFOAMIntegration
    /\ frame = NoFrame

Call_validation_metrics ==
    /\ Starts("validation_metrics")
    /\ result' = validation_metrics(call.analytical_results, call.cfd_results,
                                    call.okind)
    /\ UNCHANGED <<call, nozzle, stdin, stdout, cfd, frame>>

NextCompare == Call_validation_metrics

SpecCompare == InitCompare /\ [][NextCompare]_vars

---------------------------------------------------------------------------
(* The console functions of main.py, each called with the lines that will   *)
(* be typed                                                                  *)

\* the analysis called on its own, with the configurations of one slot
AnalysisCalls ==
    [op : {"analyze_cooling_performance"},
     config : {config \in InjectionConfigs :
                  /\ config.slot_height = R(1, 1000)
                  /\ config.coolant_temp = R(300, 1)},
     x_points : XPointLists, main_temp : MainTemps,
     main_velocity : MainVelocities]

InitAnalysis ==
    /\ call \in AnalysisCalls
    /\ result = Pending
    /\ nozzle = NoNozzle
    /\ stdin = <<>>
    /\ stdout = <<>>
    /\ cfd = OpenFOAMIntegration
    /\ frame = NoFrame

NextAnalysis == Call_analyze_cooling_performance

SpecAnalysis == InitAnalysis /\ [][NextAnalysis]_vars

---------------------------------------------------------------------------
(* Calls on one OpenFOAMIntegration object, in any order *)

\* the most solver runs followed on one object
MaxLaunches == 2

CFDConfigs ==
    {NoConfig, create_cfd_config("kEpsilon"), create_cfd_config("kOmegaSST")}

CaseNozzles == {ConvergentDivergentNozzle(R(1, 1), R(2, 1), R(3, 1))}

FlowConditions == {[inlet_temperature |-> R(315, 1), gamma |-> R(7, 5)]}

InitCFD ==
    /\ call = [op |-> "OpenFOAMIntegration"]
    /\ result = Done
    /\ nozzle = NoNozzle
    /\ stdin = <<>>
    /\ stdout = <<>>
    /\ cfd = OpenFOAMIntegration
    /\ frame = NoFrame

Call_setup_case ==
    \E nozzle_geometry \in CaseNozzles, flow_conditions \in FlowConditions,
       cfd_config \in CFDConfigs, writable \in BOOLEAN :
        LET done == setup_case(cfd, nozzle_geometry, flow_conditions,
                               cfd_config, writable)
        IN  /\ call' = [op |-> "setup_case", cfd_config |-> cfd_config,
                        writable |-> writable]
            /\ result' = done.outcome
            /\ cfd' = done.self
            /\ UNCHANGED <<nozzle, stdin, stdout, frame>>

Call_run_simulation ==
    \E installed \in BOOLEAN :
        LET done == run_simulation(cfd, installed)
        IN  /\ Len(cfd.launched) < MaxLaunches
            /\ call' = [op |-> "run_simulation", installed |-> installed]
            /\ result' = done.outcome
            /\ cfd' = done.self
            /\ UNCHANGED <<nozzle, stdin, stdout, frame>>

Call_get_results ==
    /\ call' = [op |-> "get_results"]
    /\ result' = [kind |-> "ok", err |-> "", val |-> get_results]
    /\ UNCHANGED <<nozzle, stdin, stdout, cfd, frame>>

Call_validate_with_analytical ==
    \E analytical_results \in Mappings(AnalyticalValues) :
        /\ call' = [op |-> "validate_with_analytical",
                    analytical_results |-> analytical_results]
        /\ result' = validate_with_analytical(analytical_results)
        /\ UNCHANGED <<nozzle, stdin, stdout, cfd, frame>>

NextCFD ==
    \/ Call_setup_case
    \/ Call_run_simulation
    \/ Call_get_results
    \/ Call_validate_with_analytical

SpecCFD == InitCFD /\ [][NextCFD]_vars

---------------------------------------------------------------------------
(* The prompts of main.py *)

Lines == {"", "x"} \cup FloatLines

\* up to MaxLines lines typed at one prompt
PromptScripts == UNION {[1..n -> Lines] : n \in 0..MaxLines}

\* every initial part of a script: the input may end anywhere
Prefixes(scripts) ==
    UNION {{SubSeq(script, 1, n) : n \in 0..Len(script)} : script \in scripts}

\* the lines answering the menu of choices
ChoiceScripts ==
    {<<choice>> : choice \in IntLines}
    \cup {<<"x", "7">>, <<"", "1">>, <<"2.5", "3">>}

\* what is typed at create_nozzle: the choice, throat area, exit area and
\* length, then the answers to the shape's own prompts
NozzleScripts ==
    Prefixes({choice \o <<throat_area, "7", length>> \o more :
                 choice \in ChoiceScripts, throat_area \in {"2", "0"},
                 length \in {"3", "0"},
                 more \in {<<>>, <<"">>, <<"", "">>, <<"x", "3", "2.5">>}})

\* what is typed at get_cooling_config: the choice and the six fields
CoolingScripts ==
    Prefixes({choice \o <<angle, "1", "1", "2", "7", velocity>> :
                 choice \in ChoiceScripts, angle \in {"0", "x"},
                 velocity \in {"1", "2.5"}})

ConsoleCalls ==
    [op : {"get_float", "get_int"}, default : {None, Default(<<7, 1>>)},
     lines : PromptScripts]
    \cup [op : {"create_nozzle"}, lines : NozzleScripts]
    \cup [op : {"get_cooling_config"}, lines : CoolingScripts]

InitConsole ==
    /\ call \in ConsoleCalls
    /\ result = Pending
    /\ nozzle = NoNozzle
    /\ stdin = call.lines
    /\ stdout = <<>>
    /\ cfd = OpenFOAMIntegration
    /\ frame = NoFrame

\* the outcome of a console function as the caller sees it
Outcome(read) == [kind |-> read.kind, val |-> read.val, err |-> read.err]

Call_get_float ==
    /\ Starts("get_float")
    /\ \E read \in {get_float("? ", call.default, stdin)} :
           /\ result' = Outcome(read)
           /\ stdin' = read.rest
           /\ stdout' = stdout \o read.out
    /\ UNCHANGED <<call, nozzle, cfd, frame>>

Call_get_int ==
    /\ Starts("get_int")
    /\ \E read \in {get_int("? ", call.default, stdin)} :
           /\ result' = Outcome(read)
           /\ stdin' = read.rest
           /\ stdout' = stdout \o read.out
    /\ UNCHANGED <<call, nozzle, cfd, frame>>

Call_create_nozzle ==
    /\ Starts("create_nozzle")
    /\ \E read \in {create_nozzle(stdin)} :
           /\ result' = Outcome(read)
           /\ nozzle' = read.val
           /\ stdin' = read.rest
           /\ stdout' = stdout \o read.out
    /\ UNCHANGED <<call, cfd, frame>>

Call_get_cooling_config ==
    /\ Starts("get_cooling_config")
    /\ \E read \in {get_cooling_config(stdin)} :
           /\ result' = Outcome(read)
           /\ stdin' = read.rest
           /\ stdout' = stdout \o read.out
    /\ UNCHANGED <<call, nozzle, cfd, frame>>

NextConsole ==
    \/ Call_get_float
    \/ Call_get_int
    \/ Call_create_nozzle
    \/ Call_get_cooling_config

SpecConsole == InitConsole /\ [][NextConsole]_vars

---------------------------------------------------------------------------
(* main.py: main, one action for each of its stages.  frame holds the       *)
(* position reached, the local names, how each optional stage ended and,    *)
(* once the position is "exited", the exit status of the process.           *)

StartOfMain ==
    [pc |-> "start", inputs |-> <<>>,
     area_ratio |-> Unassigned, required_expansion |-> Unassigned,
     T0 |-> Unassigned, Te |-> Unassigned, Ve |-> Unassigned,
     Pe |-> Unassigned, thrust |-> Unassigned, x_points |-> <<>>,
     film_cooling |-> "pending", cfd_analysis |-> "pending",
     visualization |-> "pending", status |-> 0]

\* the handler of main left out: the run goes on to the summary
main_except_resumes(fr) == [fr EXCEPT !.pc = "summary"]

\* main, except Exception: after the error line, sys.exit(1)
main_except(fr) == [fr EXCEPT !.pc = "exited", !.status = 1]

\* sys.exit(1) inside create_nozzle, get_cooling_config or get_cfd_config:
\* SystemExit is not an Exception, so main's handler lets it through and
\* the process ends with status 1
system_exit(fr) == [fr EXCEPT !.pc = "exited", !.status = 1]

At(pc) == frame.pc = pc

\* str.lower() of a typed line
Lower(line) == IF line = "Y" THEN "y" ELSE line

FlowPrompts ==
    <<"Static temperature (K): ", "Inlet Mach number: ",
      "Exit Mach number: ", "Specific heat ratio (default 1.4): ",
      "Specific heat at constant pressure cp (J/kg K, default 1005): ",
      "Total (stagnation) pressure (Pa): ", "Atmospheric pressure (Pa): ",
      "Mass flow rate (kg/s): ">>

FlowDefaults ==
    <<None, None, None, Default(R(7, 5)), Default(R(1005, 1)),
      None, None, None>>

SummaryLines ==
    <<"Nozzle Performance Results:", "Nozzle Type: ", "Area Ratio: ",
      "Required Expansion Ratio: ", "Total (Inlet) Temperature: ",
      "Exit Temperature: ", "Exit Velocity: ", "Exit Pressure: ",
      "Thrust: ">>

\* an outcome times a float: a value that is not a finite real number
\* stays one
times(outcome, factor) ==
    IF outcome.kind = "num" THEN Num(RMul(outcome.val, factor)) ELSE outcome

\* main, lines 152-158: the banner, the output directories, the visualizer
Main_start ==
    /\ At("start")
    /\ \E writable \in BOOLEAN :
        IF writable THEN
            /\ frame' = [frame EXCEPT !.pc = "create_nozzle"]
            /\ stdout' = stdout \o <<"Supersonic Nozzle Calculations">>
        ELSE
            /\ frame' = main_except(frame)
            /\ stdout' = stdout \o <<"Supersonic Nozzle Calculations",
                                     "Error:">>
    /\ UNCHANGED <<call, result, nozzle, stdin, cfd>>

\* main, line 161
Main_create_nozzle ==
    /\ At("create_nozzle")
    /\ \E read \in {create_nozzle(stdin)} :
           /\ stdin' = read.rest
           /\ nozzle' = read.val
           /\ IF read.err = "EOFError" THEN
                  /\ frame' = main_except(frame)
                  /\ stdout' = stdout \o read.out \o <<"Error:">>
              ELSE IF read.err = "SystemExit" THEN
                  /\ frame' = system_exit(frame)
                  /\ stdout' = stdout \o read.out
              ELSE
                  /\ frame' = [frame EXCEPT !.pc = "flow_parameters"]
                  /\ stdout' = stdout \o read.out
    /\ UNCHANGED <<call, result, cfd>>

\* main, lines 164-171
Main_get_flow_parameters ==
    /\ At("flow_parameters")
    /\ \E read \in {read_floats_with_defaults(FlowPrompts, FlowDefaults,
                                              stdin)} :
           /\ stdin' = read.rest
           /\ IF IsError(read) THEN
                  /\ frame' = main_except(frame)
                  /\ stdout' = stdout \o read.out \o <<"Error:">>
              ELSE
                  /\ frame' = [frame EXCEPT !.pc = "calculate",
                                            !.inputs = read.val]
                  /\ stdout' = stdout \o read.out
    /\ UNCHANGED <<call, result, nozzle, cfd>>

\* main, lines 174-182: what each call returns or raises, in the order
\* area_ratio, required_expansion, T0, Te, Ve, Pe, thrust
main_calculations(noz, inputs) ==
    LET T_static == inputs[1]
        M_inlet == inputs[2]
        M_exit == inputs[3]
        gamma == inputs[4]
        cp == inputs[5]
        P_total == inputs[6]
        P_atm == inputs[7]
        mass_flow_rate == inputs[8]
        flow == flow_parameters(T_static, M_inlet, M_exit, gamma, cp)
        Pe == times(calc_pressure_ratio(M_exit, gamma), P_total)
        thrust == IF flow.Ve.kind # "num" THEN flow.Ve
                  ELSE IF Pe.kind # "num" THEN Pe
                  ELSE Num(calc_thrust(mass_flow_rate, flow.Ve.val, Pe.val,
                                       P_atm, noz.exit_area))
    IN  <<calculate_area_ratio(noz),
          calculate_expansion_ratio(noz, gamma, M_exit),
          flow.T0, flow.Te, flow.Ve, Pe, thrust>>

\* main, lines 174-190: each name is assigned unless an earlier call raised
Main_calculate ==
    /\ At("calculate")
    /\ \E computed \in {main_calculations(nozzle, frame.inputs)} :
        \E raised \in {{i \in 1..7 : IsError(computed[i])}} :
            LET assigned(i) == IF \E j \in raised : j <= i THEN Unassigned
                               ELSE computed[i]
                locals == [frame EXCEPT !.area_ratio = assigned(1),
                                        !.required_expansion = assigned(2),
                                        !.T0 = assigned(3), !.Te = assigned(4),
                                        !.Ve = assigned(5), !.Pe = assigned(6),
                                        !.thrust = assigned(7)]
            IN  IF raised # {} THEN
                    /\ frame' = main_except(locals)
                    /\ stdout' = stdout \o <<"Error:">>
                ELSE
                    /\ frame' = [locals EXCEPT !.pc = "film_cooling"]
                    /\ stdout' = stdout
    /\ UNCHANGED <<call, result, nozzle, stdin, cfd>>

FilmQuestion == "Would you like to perform film cooling analysis? (y/n)"

\* main, lines 193-216: the question, the configuration, the eleven
\* positions, the analysis and its table.  The analysis computes the
\* effectiveness at the first position before anything else, and nothing
\* else once that has raised
Main_film_cooling ==
    /\ At("film_cooling")
    /\ IF stdin = <<>> THEN
           /\ frame' = main_except(frame)
           /\ stdin' = stdin
           /\ stdout' = stdout \o <<FilmQuestion, "Error:">>
       ELSE IF Lower(Head(stdin)) # "y" THEN
           /\ frame' = [frame EXCEPT !.pc = "cfd_analysis",
                                     !.film_cooling = "declined"]
           /\ stdin' = Tail(stdin)
           /\ stdout' = stdout \o <<FilmQuestion>>
       ELSE \E read \in {get_cooling_config(Tail(stdin))} :
           LET cooling_config == [read.val EXCEPT !.angle = @[1] \div @[2]]
               x_points == analysis_points(nozzle.length)
               first == calculate_effectiveness(cooling_config, x_points[1],
                                                frame.Te.val, frame.Ve.val)
               cooling_results ==
                   IF IsError(first) THEN first
                   ELSE analyze_cooling_performance(cooling_config, x_points,
                                                    frame.Te.val,
                                                    frame.Ve.val)
               asked == stdout \o <<FilmQuestion>> \o read.out
               stage == [frame EXCEPT !.film_cooling = "raised"]
           IN  /\ stdin' = read.rest
               /\ IF read.err = "EOFError" THEN
                      /\ frame' = main_except(stage)
                      /\ stdout' = asked \o <<"Error:">>
                  ELSE IF read.err = "SystemExit" THEN
                      /\ frame' = system_exit(stage)
                      /\ stdout' = asked
                  ELSE IF IsError(cooling_results) THEN
                      /\ frame' = main_except([stage EXCEPT
                                                  !.x_points = x_points])
                      /\ stdout' = asked \o <<"Error:">>
                  ELSE
                      /\ frame' = [frame EXCEPT !.pc = "cfd_analysis",
                                                !.x_points = x_points,
                                                !.film_cooling = "completed"]
                      /\ stdout' = asked \o <<"Film Cooling Results:">>
    /\ UNCHANGED <<call, result, nozzle, cfd>>

CFDQuestion == "Would you like to perform CFD analysis? (y/n)"

\* main, lines 219-247: the question, the configuration, then setup_case,
\* run_simulation and validate_with_analytical on a new OpenFOAMIntegration
Main_cfd_analysis ==
    /\ At("cfd_analysis")
    /\ IF stdin = <<>> THEN
           /\ frame' = main_except(frame)
           /\ stdin' = stdin
           /\ stdout' = stdout \o <<CFDQuestion, "Error:">>
           /\ cfd' = cfd
       ELSE IF Lower(Head(stdin)) # "y" THEN
           /\ frame' = [frame EXCEPT !.pc = "visualization",
                                     !.cfd_analysis = "declined"]
           /\ stdin' = Tail(stdin)
           /\ stdout' = stdout \o <<CFDQuestion>>
           /\ cfd' = cfd
       ELSE \E writable \in BOOLEAN, installed \in BOOLEAN,
               read \in {get_cfd_config(Tail(stdin))} :
           LET flow_conditions ==
                   [inlet_temperature |-> frame.T0.val,
                    inlet_pressure |-> frame.inputs[6],
                    inlet_mach |-> frame.inputs[2],
                    exit_pressure |-> frame.inputs[7],
                    gamma |-> frame.inputs[4]]
               analytical_results ==
                   [key \in {"exit_temperature", "exit_velocity",
                             "exit_pressure", "thrust"} |->
                       CASE key = "exit_temperature" -> frame.Te.val
                         [] key = "exit_velocity" -> frame.Ve.val
                         [] key = "exit_pressure" -> frame.Pe.val
                         [] key = "thrust" -> frame.thrust.val]
               setup == setup_case(OpenFOAMIntegration, nozzle,
                                   flow_conditions, read.val, writable)
               run == run_simulation(setup.self, installed)
               validation == validate_with_analytical(analytical_results)
               asked == stdout \o <<CFDQuestion>> \o read.out
               stage == [frame EXCEPT !.cfd_analysis = "raised"]
           IN  /\ stdin' = read.rest
               /\ IF IsError(read) THEN
                      /\ frame' = system_exit(stage)
                      /\ stdout' = asked
                      /\ cfd' = cfd
                  ELSE IF IsError(setup.outcome) THEN
                      /\ frame' = main_except(stage)
                      /\ stdout' = asked \o <<"Setting up CFD case...",
                                              "Error:">>
                      /\ cfd' = setup.self
                  ELSE IF IsError(run.outcome) THEN
                      /\ frame' = main_except(stage)
                      /\ stdout' = asked \o <<"Setting up CFD case...",
                                              "Running CFD simulation...",
                                              "Error:">>
                      /\ cfd' = run.self
                  ELSE IF IsError(validation) THEN
                      /\ frame' = main_except(stage)
                      /\ stdout' = asked \o <<"Setting up CFD case...",
                                              "Running CFD simulation...",
                                              "Analyzing results...",
                                              "Error:">>
                      /\ cfd' = run.self
                  ELSE
                      /\ frame' = [frame EXCEPT !.pc = "visualization",
                                                !.cfd_analysis = "completed"]
                      /\ stdout' = asked \o <<"Setting up CFD case...",
                                              "Running CFD simulation...",
                                              "Analyzing results...",
                                              "CFD Validation Results:">>
                      /\ cfd' = run.self
    /\ UNCHANGED <<call, result, nozzle>>

VisualizationQuestion == "Would you like to visualize the results? (y/n)"

\* main, lines 250-271: the visualizer's methods handle their own
\* exceptions; importing cantera and loading output/chemistry/results.yaml,
\* when that file exists, may raise in main
Main_visualization ==
    /\ At("visualization")
    /\ IF stdin = <<>> THEN
           /\ frame' = main_except(frame)
           /\ stdin' = stdin
           /\ stdout' = stdout \o <<VisualizationQuestion, "Error:">>
       ELSE IF Lower(Head(stdin)) # "y" THEN
           /\ frame' = [frame EXCEPT !.pc = "summary",
                                     !.visualization = "declined"]
           /\ stdin' = Tail(stdin)
           /\ stdout' = stdout \o <<VisualizationQuestion>>
       ELSE \E chemistry_loads \in BOOLEAN :
           /\ stdin' = Tail(stdin)
           /\ IF chemistry_loads THEN
                  /\ frame' = [frame EXCEPT !.pc = "summary",
                                            !.visualization = "completed"]
                  /\ stdout' = stdout \o <<VisualizationQuestion>>
              ELSE
                  /\ frame' = main_except([frame EXCEPT
                                              !.visualization = "raised"])
                  /\ stdout' = stdout \o <<VisualizationQuestion, "Error:">>
    /\ UNCHANGED <<call, result, nozzle, cfd>>

\* main, lines 273-281, and the return of main
Main_summary ==
    /\ At("summary")
    /\ frame' = [frame EXCEPT !.pc = "exited", !.status = 0]
    /\ stdout' = stdout \o SummaryLines
    /\ UNCHANGED <<call, result, nozzle, stdin, cfd>>

\* what is typed at the eight flow prompts
FlowScripts ==
    {<<"7", M_inlet, "2", gamma, "", "7", "1", "1">> :
        M_inlet \in {"2", "x"}, gamma \in {"2", "1"}}

\* the answer to a yes/no question and what is typed in the stage
StageScripts(typed) == {<<"n">>, <<"">>} \cup {<<yes>> \o typed : yes \in {"y", "Y"}}

MainScripts ==
    Prefixes({shape \o flow \o film \o cfd_stage \o visualization :
                 shape \in {<<"1", "2", "7", "3">>, <<"1", "0", "7", "3">>,
                            <<"3", "2", "7", "0", "">>},
                 flow \in FlowScripts,
                 film \in StageScripts(<<"1", "0", "1", "1", "2", "7", "1">>),
                 cfd_stage \in StageScripts(<<"", "1", "2", "", "", "", "">>),
                 visualization \in {<<"n">>, <<"y">>}})

InitMain ==
    /\ call = [op |-> "main"]
    /\ result = Pending
    /\ nozzle = NoNozzle
    /\ stdin \in MainScripts
    /\ stdout = <<>>
    /\ cfd = OpenFOAMIntegration
    /\ frame = StartOfMain

NextMain ==
    \/ Main_start
    \/ Main_create_nozzle
    \/ Main_get_flow_parameters
    \/ Main_calculate
    \/ Main_film_cooling
    \/ Main_cfd_analysis
    \/ Main_visualization
    \/ Main_summary

SpecMain == InitMain /\ [][NextMain]_vars

---------------------------------------------------------------------------
(* Properties of the film-cooling model *)

Returned(op) == call.op = op /\ result # Pending

\* the configurations the film-cooling contract calls valid
ValidConfig(config) ==
    /\ RLt(Zero, config.slot_height)
    /\ RLt(Zero, config.blowing_ratio)
    /\ RLt(Zero, config.coolant_velocity)
    /\ config.angle >= 0 /\ config.angle <= 90

\* C1: for a valid configuration, x > 0 and main_velocity > 0,
\* calculate_effectiveness returns a number eta with 0 <= eta <= 1
C1_EffectivenessInUnitInterval ==
    (/\ Returned("calculate_effectiveness")
     /\ ValidConfig(call.config)
     /\ RLt(Zero, call.x)
     /\ RLt(Zero, call.main_velocity))
    => /\ IsNum(result)
       /\ RLe(Zero, result.val)
       /\ RLe(result.val, One)

\* a valid call whose correlation exceeds 1 and is returned as 1
C1_Witness ==
    /\ Returned("calculate_effectiveness")
    /\ ValidConfig(call.config)
    /\ RLt(Zero, call.x)
    /\ RLt(One, clamp_unit_missing(
                    RMul(RMul(RMul(R(19, 10),
                                   Pow(momentum_ratio(call.config,
                                                      call.main_velocity),
                                       1, 5).val),
                              x_plus_decay(RDiv(call.x,
                                                call.config.slot_height)).val),
                         CosDeg(call.config.angle))))
    /\ result = Num(One)

\* C2: for a valid configuration and x > 0, calculate_wall_temperature
\* returns Tw with min(coolant_temp, main_temp) <= Tw <= max(coolant_temp,
\* main_temp)
C2_WallTemperatureBetween ==
    (/\ Returned("calculate_wall_temperature")
     /\ ValidConfig(call.config)
     /\ RLt(Zero, call.x))
    => /\ IsNum(result)
       /\ RLe(RMin(call.config.coolant_temp, call.main_temp), result.val)
       /\ RLe(result.val, RMax(call.config.coolant_temp, call.main_temp))

\* C3: for a valid configuration and fixed mainstream values the
\* effectiveness is non-increasing in x: of two samples with 0 < x1 < x2 the
\* one at x2 is not above the one at x1, clamped or not
C3_EffectivenessNonIncreasing ==
    (/\ Returned("analyze_cooling_performance")
     /\ ValidConfig(call.config)
     /\ result.kind = "ok")
    => \A i, j \in DOMAIN call.x_points :
          (RLt(Zero, call.x_points[i])
           /\ RLt(call.x_points[i], call.x_points[j]))
          => RLe(result.effectiveness[j].val, result.effectiveness[i].val)

\* two samples, the nearer one clamped to 1 and the farther one below 1
C3_Witness ==
    /\ Returned("analyze_cooling_performance")
    /\ ValidConfig(call.config)
    /\ result.kind = "ok"
    /\ \E i, j \in DOMAIN call.x_points :
          /\ RLt(Zero, call.x_points[i])
          /\ RLt(call.x_points[i], call.x_points[j])
          /\ result.effectiveness[i].val = One
          /\ RLt(Zero, result.effectiveness[j].val)
          /\ RLt(result.effectiveness[j].val, One)

FilmPointOps ==
    {"calculate_effectiveness", "calculate_wall_temperature",
     "calculate_heat_transfer_coefficient"}

\* C4: at x = 0 each of calculate_effectiveness, calculate_wall_temperature
\* and calculate_heat_transfer_coefficient ends in an error outcome, never
\* in a number, an infinity or a NaN
C4_ZeroPositionIsError ==
    (call.op \in FilmPointOps /\ result # Pending /\ call.x = Zero)
    => IsError(result)

\* the heat transfer coefficient asked for at x = 0 has raised
C4_Witness ==
    /\ Returned("calculate_heat_transfer_coefficient")
    /\ call.x = Zero
    /\ result = Raise("ZeroDivisionError")

---------------------------------------------------------------------------
(* Properties of the flow relations and of the nozzle constructors *)

\* C5: calc_exit_velocity with cp > 0 fails with an error outcome when
\* T0 < Te, and when T0 >= Te returns the square root of 2*cp*(T0 - Te):
\* the non-negative number v of the root's grid with
\* v^2 <= 2*cp*(T0 - Te) < (v + 1/SqrtDen)^2
C5_ExitVelocity ==
    (Returned("calc_exit_velocity") /\ RLt(Zero, call.cp))
    => LET radicand == RMul(RMul(Two, call.cp), RSub(call.T0, call.Te))
           above == RAdd(result.val, R(1, SqrtDen))
       IN  /\ RLt(call.T0, call.Te) => IsError(result)
           /\ RLe(call.Te, call.T0) =>
                 /\ IsNum(result)
                 /\ RLe(Zero, result.val)
                 /\ RLe(RMul(result.val, result.val), radicand)
                 /\ RLt(radicand, RMul(above, above))

\* the square root of a negative radicand has raised
C5_Witness ==
    /\ Returned("calc_exit_velocity")
    /\ RLt(Zero, call.cp)
    /\ RLt(call.T0, call.Te)
    /\ result = Raise("ValueError")

FlowOps ==
    {"calc_total_temperature", "calc_static_exit_temperature",
     "calc_pressure_ratio", "calculate_expansion_ratio"}

\* C6: each flow relation called with gamma <= 1 (gamma = 1 as well as
\* gamma < 1) ends in an error outcome instead of returning a number
C6_GammaAtMostOneIsError ==
    (call.op \in FlowOps /\ result # Pending /\ RLe(call.gamma, One))
    => IsError(result)

\* C7: constructing a nozzle with length <= 0 or throat_area <= 0 fails, so
\* every nozzle object has a positive length and a positive throat_area
C7_NoDegenerateNozzle ==
    nozzle # NoNozzle
    => RLt(Zero, nozzle.length) /\ RLt(Zero, nozzle.throat_area)

---------------------------------------------------------------------------
(* Properties of the comparison with analytical results *)

\* the parameters present in both mappings of the call
InBoth == DOMAIN call.analytical_results \cap DOMAIN call.cfd_results

\* C8: for each parameter present in both mappings with a nonzero
\* analytical value, relative_error * analytical = |observed - analytical|
\* and absolute_error = |observed - analytical|; analytical 1000 with
\* observed 950 gives relative_error 1/20 and absolute_error 50
C8_ErrorMetrics ==
    (Returned("validation_metrics") /\ result.kind = "ok")
    => \A key \in InBoth :
          LET ana == call.analytical_results[key]
              obs == call.cfd_results[key]
              dist == IF RLe(ana, obs) THEN RSub(obs, ana)
                      ELSE RSub(ana, obs)
          IN  ana # Zero =>
                 /\ key \in DOMAIN result.val
                 /\ IsNum(result.val[key].relative_error)
                 /\ RMul(result.val[key].relative_error.val, ana) = dist
                 /\ result.val[key].absolute_error = Num(dist)
                 /\ (ana = R(1000, 1) /\ obs = R(950, 1)) =>
                       /\ result.val[key].relative_error.val = R(1, 20)
                       /\ result.val[key].absolute_error.val = R(50, 1)

\* the comparison of analytical thrust 1000 with observed thrust 950
C8_Witness ==
    /\ Returned("validation_metrics")
    /\ result.kind = "ok"
    /\ "thrust" \in InBoth
    /\ call.analytical_results["thrust"] = R(1000, 1)
    /\ call.cfd_results["thrust"] = R(950, 1)
    /\ result.val["thrust"].relative_error = Num(R(1, 20))

\* C9: when a parameter present in both mappings has the analytical value
\* zero the comparison fails with an error; it returns no mapping, hence no
\* NaN or infinite relative_error and no partial result
C9_ZeroAnalyticalIsError ==
    (/\ Returned("validation_metrics")
     /\ \E key \in InBoth : call.analytical_results[key] = Zero)
    => result.kind = "error"

\* C10: the keys of the returned mapping are exactly the parameters present
\* in both mappings, and a parameter present in only one of them causes no
\* error: the comparison raises only on a zero analytical value of a
\* parameter present in both
C10_KeysAreIntersection ==
    Returned("validation_metrics")
    => /\ result.kind = "ok" => DOMAIN result.val = InBoth
       /\ result.kind = "error" =>
             \E key \in InBoth : call.analytical_results[key] = Zero

\* a comparison that returns, with a compared parameter and a skipped
\* parameter on each side
C10_Witness ==
    /\ Returned("validation_metrics")
    /\ result.kind = "ok"
    /\ InBoth # {}
    /\ DOMAIN result.val = InBoth
    /\ DOMAIN call.analytical_results \ InBoth # {}
    /\ DOMAIN call.cfd_results \ InBoth # {}

---------------------------------------------------------------------------
(* Properties of the console functions *)

Range(seq) == {seq[i] : i \in DOMAIN seq}

\* what the lines of the call answer to the four prompts of create_nozzle
NozzleAnswers ==
    LET choice == get_int("", None, call.lines)
        throat_area == get_float("", None, choice.rest)
        exit_area == get_float("", None, throat_area.rest)
        length == get_float("", None, exit_area.rest)
    IN  [complete |-> ~IsError(length), choice |-> choice.val,
         throat_area |-> throat_area.val, exit_area |-> exit_area.val,
         length |-> length.val]

ListedChoices == {One, <<2, 1>>, <<3, 1>>}

\* C11: create_nozzle given an integer choice outside {1, 2, 3} returns a
\* ConvergentDivergentNozzle built from the entered throat area, exit area
\* and length, and prints a message about the fallback; it does not fail
C11_UnknownShapeFallsBackWithWarning ==
    (/\ Returned("create_nozzle")
     /\ NozzleAnswers.complete
     /\ NozzleAnswers.choice \notin ListedChoices)
    => /\ result.kind = "ok"
       /\ nozzle = ConvergentDivergentNozzle(NozzleAnswers.throat_area,
                                             NozzleAnswers.exit_area,
                                             NozzleAnswers.length)
       /\ "Invalid choice, defaulting to conventional nozzle"
             \in Range(stdout)

\* the choice 7, typed after a line that is no number, has built the
\* conventional nozzle and printed the message
C11_Witness ==
    /\ Returned("create_nozzle")
    /\ call.lines = <<"x", "7", "2", "7", "3">>
    /\ nozzle.cls = "ConvergentDivergentNozzle"
    /\ nozzle.throat_area = <<2, 1>>
    /\ stdout[Len(stdout)] = "Invalid choice, defaulting to conventional nozzle"

\* the coolant choice the lines of the call answer
CoolantAnswer == get_int("", None, call.lines).val

\* the text get_cooling_config writes for any choice: menu, prompts and the
\* message for a line that is no number
CoolingRoutineText ==
    Range(CoolingMenu) \cup Range(CoolingPrompts)
    \cup {"Select coolant type (1-3): ", InvalidNumber}

\* C12: get_cooling_config given a coolant choice outside {1, 2, 3} returns
\* a configuration whose coolant_type is AIR and writes a warning, so that
\* the substitution is observable
C12_UnknownCoolantFallsBackWithWarning ==
    (/\ Returned("get_cooling_config")
     /\ result.kind = "ok"
     /\ CoolantAnswer \notin ListedChoices)
    => /\ result.val.coolant_type = "AIR"
       /\ Range(stdout) \ CoolingRoutineText # {}

---------------------------------------------------------------------------
(* Properties of the correlations and relations, continued *)

\* C13: the momentum ratio used by calculate_effectiveness equals
\* BR^2 * (rho_coolant / rho_air) * (V_coolant / V_main)^2, with rho_air the
\* density of the AIR entry for every coolant
C13_MomentumRatioSquaresBlowingRatio ==
    Returned("calculate_effectiveness")
    => momentum_ratio(call.config, call.main_velocity)
       = RMul(RMul(RPow(call.config.blowing_ratio, 2),
                   RDiv(COOLANT_PROPERTIES[call.config.coolant_type].density,
                        COOLANT_PROPERTIES.AIR.density)),
              RPow(RDiv(call.config.coolant_velocity, call.main_velocity), 2))

\* C14: calculate_area_ratio returns exit_area / throat_area for each of the
\* three nozzle classes, whatever the length and the parameters of the
\* shape; ConvergentDivergentNozzle(2, 8, 5) gives 4
C14_AreaRatio ==
    Returned("calculate_area_ratio")
    => /\ nozzle.throat_area # Zero =>
             /\ IsNum(result)
             /\ RMul(result.val, nozzle.throat_area) = nozzle.exit_area
       /\ nozzle = ConvergentDivergentNozzle(R(2, 1), R(8, 1), R(5, 1))
             => result = Num(R(4, 1))

\* the area ratio 4 of an elliptic nozzle with six lobes
C14_Witness ==
    /\ Returned("calculate_area_ratio")
    /\ nozzle.cls = "EllipticNozzle"
    /\ nozzle.num_lobes = 6
    /\ nozzle.throat_area = R(2, 1)
    /\ result = Num(R(4, 1))

\* a flow-parameter run whose inlet and exit Mach numbers are the same
\* M >= 0, with gamma > 1
RoundTrip ==
    /\ Returned("flow_parameters")
    /\ call.M_inlet = call.M_exit
    /\ RLe(Zero, call.M_inlet)
    /\ RLt(One, call.gamma)

\* the unit roundoff of the arithmetic and the relative error of two
\* rounded operations, (1 + u)^2 - 1
UnitRoundoff == R(5, IPow(10, Digits))
TwoRoundings == RSub(RPow(RAdd(One, UnitRoundoff), 2), One)

\* C15 as stated: the static temperature computed back from the total
\* temperature at the same Mach number is exactly the T that went in
C15_RoundTripExact ==
    RoundTrip => result.Te = Num(call.T_static)

\* C15 amended: the static temperature computed back from the total
\* temperature at the same Mach number is T up to the rounding of the one
\* multiplication and the one division, |Te - T| <= ((1 + u)^2 - 1) * |T|
C15_RoundTripWithinRounding ==
    RoundTrip
    => /\ IsNum(result.Te)
       /\ RLe(RAbs(RSub(result.Te.val, call.T_static)),
              RMul(TwoRoundings, RAbs(call.T_static)))

\* a round trip that comes back within rounding but not on T
C15_Witness ==
    /\ RoundTrip
    /\ call.M_inlet = Two
    /\ IsNum(result.Te)
    /\ result.Te.val # call.T_static

\* C16: for T >= 0, M >= 0 and gamma > 1 the total temperature is at least
\* the static temperature, and equal to it at M = 0
C16_TotalAtLeastStatic ==
    ( /\ Returned("calc_total_temperature")
      /\ RLe(Zero, call.T) /\ RLe(Zero, call.M) /\ RLt(One, call.gamma) )
    => /\ IsNum(result)
       /\ RLe(call.T, result.val)
       /\ call.M = Zero => result.val = call.T

\* a total temperature strictly above the static one: 300 K at Mach 2
C16_Witness ==
    /\ Returned("calc_total_temperature")
    /\ call.T = R(300, 1) /\ call.M = Two /\ call.gamma = R(7, 5)
    /\ result = Num(R(540, 1))

\* Scenario A as typed into main: 300 K, inlet Mach 0.5, gamma 1.4
ScenarioA ==
    /\ Returned("flow_parameters")
    /\ call.T_static = R(300, 1)
    /\ call.M_inlet = R(1, 2)
    /\ call.gamma = R(7, 5)

\* C17: with T_static = 300, M_inlet = 0.5 and gamma = 1.4 main computes
\* T0 = 315.0, and with M_exit = 2.0 it computes from that T0 a Te that is
\* 175.0 to one decimal place
C17_TemperatureChain ==
    ScenarioA
    => /\ result.T0 = Num(R(315, 1))
       /\ call.M_exit = Two =>
             /\ IsNum(result.Te)
             /\ RLe(RAbs(RSub(result.Te.val, R(175, 1))), R(1, 20))

\* Scenarios A and B run with cp = 1005
C17_Witness ==
    /\ ScenarioA
    /\ call.M_exit = Two
    /\ call.cp = R(1005, 1)
    /\ IsNum(result.Ve)

\* Scenario C: calc_exit_velocity(1005, 315, 175.0) has returned
ScenarioC ==
    /\ Returned("calc_exit_velocity")
    /\ call.cp = R(1005, 1)
    /\ call.T0 = R(315, 1)
    /\ call.Te = R(175, 1)

\* the returned number is the square root of radicand on the grid of the
\* root: the root lies in [result, result + 1/SqrtDen)
IsGridRoot(radicand) ==
    /\ IsNum(result)
    /\ RLe(Zero, result.val)
    /\ RLe(RPow(result.val, 2), radicand)
    /\ RLt(radicand, RPow(RAdd(result.val, R(1, SqrtDen)), 2))

\* the interval [result, result + 1/SqrtDen) that holds the root meets the
\* numbers that are d to one decimal place, [d - 0.05, d + 0.05)
ToOneDecimal(d) ==
    /\ RLt(RSub(d, R(1, 20)), RAdd(result.val, R(1, SqrtDen)))
    /\ RLt(result.val, RAdd(d, R(1, 20)))

\* C18 as stated: calc_exit_velocity(1005, 315, 175.0) returns the square
\* root of 2 * 1005 * 140, which is 530.9 to one decimal place
C18_ExitVelocityIs530_9 ==
    ScenarioC
    => /\ IsGridRoot(R(281400, 1))
       /\ ToOneDecimal(R(5309, 10))

\* C18 amended: calc_exit_velocity(1005, 315, 175.0) returns the square
\* root of 2 * 1005 * 140, which is 530.5 to one decimal place
C18_ExitVelocityIs530_5 ==
    ScenarioC
    => /\ IsGridRoot(R(281400, 1))
       /\ ToOneDecimal(R(5305, 10))
       /\ RLe(RPow(R(53045, 100), 2), R(281400, 1))
       /\ RLt(R(281400, 1), RPow(R(53055, 100), 2))

\* Scenario C has returned a number
C18_Witness == ScenarioC /\ IsNum(result) /\ RLt(R(530, 1), result.val)

\* C19: calculate_expansion_ratio at M = 2.0 and gamma = 1.4 yields 1.6875
C19_ExpansionRatioAtMach2 ==
    ( /\ Returned("calculate_expansion_ratio")
      /\ call.M_exit = Two
      /\ call.gamma = R(7, 5) )
    => result = Num(R(16875, 10000))

\* the wall of a nozzle with positive length and exit_area >= throat_area
\* has been sampled
PlottedWall ==
    /\ Returned("plot_convergent_divergent")
    /\ RLt(Zero, nozzle.length)
    /\ RLe(nozzle.throat_area, nozzle.exit_area)

\* the steeper of the two legs' slopes times the spacing of the samples:
\* the most that two neighbouring samples of the described wall can differ
LegStep ==
    RDiv(RDiv(RSub(nozzle.exit_area, nozzle.throat_area), R(3, 10)),
         R(PlotSamples - 1, 1))

\* C20: the sampled wall starts at exit_area at x = 0, ends at exit_area at
\* x = length, never goes below throat_area, and has no jump: neighbouring
\* samples differ by no more than the steeper leg allows
C20_ContourFallsThenRises ==
    PlottedWall
    => LET r == [i \in 1..PlotSamples |-> result.val[i][2]]
       IN  /\ r[1] = nozzle.exit_area
           /\ r[PlotSamples] = nozzle.exit_area
           /\ \A i \in 1..PlotSamples : RLe(nozzle.throat_area, r[i])
           /\ \A i \in 1..(PlotSamples - 1) :
                  RLe(RAbs(RSub(r[i + 1], r[i])), LegStep)

\* C23: for positive positions analyze_cooling_performance returns three
\* lists as long as x_points whose i-th entries are the results of the three
\* single-point methods at x_points[i], in input order; when a single-point
\* method raises, so does the analysis
C23_ListsFollowThePositions ==
    ( /\ Returned("analyze_cooling_performance")
      /\ \A i \in DOMAIN call.x_points : RLt(Zero, call.x_points[i]) )
    => LET n == Len(call.x_points)
           point ==
               [i \in 1..n |->
                   [effectiveness |->
                        calculate_effectiveness(call.config,
                                                call.x_points[i],
                                                call.main_temp,
                                                call.main_velocity),
                    wall_temperature |->
                        calculate_wall_temperature(call.config,
                                                   call.x_points[i],
                                                   call.main_temp,
                                                   call.main_velocity),
                    heat_transfer_coefficient |->
                        calculate_heat_transfer_coefficient(
                            call.config, call.x_points[i],
                            call.main_velocity)]]
           lists == {"effectiveness", "wall_temperature",
                     "heat_transfer_coefficient"}
       IN  IF \E i \in 1..n, list \in lists : IsError(point[i][list])
           THEN result.kind = "error"
           ELSE /\ result.kind = "ok"
                /\ \A list \in lists :
                       /\ Len(result[list]) = n
                       /\ \A i \in 1..n : result[list][i] = point[i][list]

\* two positive positions given in decreasing order, whose effectiveness
\* values differ and come back in that order
C23_Witness ==
    /\ Returned("analyze_cooling_performance")
    /\ call.x_points = <<R(32, 1000), R(1, 1000)>>
    /\ result.kind = "ok"
    /\ RLt(result.effectiveness[1].val, result.effectiveness[2].val)

---------------------------------------------------------------------------
(* Properties of the prompts, continued *)

\* the lines at which a prompt for a number ends: an empty line when there
\* is a default, or a line the conversion accepts
Answers(accepted) ==
    {i \in DOMAIN call.lines :
        \/ call.lines[i] = "" /\ call.default.has
        \/ call.lines[i] \in accepted}

\* the number of lines of seq that are the line
Count(seq, line) == Cardinality({i \in DOMAIN seq : seq[i] = line})

\* the prompt has consumed the lines up to the first answer, printed the
\* message once for each line before it, prompted once for each line
\* read, and returned the default or the number of the answer; with no
\* answer it has consumed every line and the input has run out
ReadsFirstAnswer(accepted) ==
    LET answers == Answers(accepted)
        first == CHOOSE i \in answers : \A j \in answers : i <= j
    IN  IF answers = {} THEN
            /\ result = Raise("EOFError")
            /\ stdin = <<>>
            /\ Count(stdout, InvalidNumber) = Len(call.lines)
        ELSE
            /\ result = Num(IF call.lines[first] = "" THEN call.default.val
                            ELSE ParseNumber(call.lines[first]))
            /\ stdin = SubSeq(call.lines, first + 1, Len(call.lines))
            /\ Count(stdout, InvalidNumber) = first - 1
            /\ Count(stdout, "? ") = first

\* C26: get_float and get_int return the default at an empty line when a
\* default is given, and otherwise the first line that parses as a number
\* of their type; every line before it is answered with the message and a
\* new prompt, and is neither returned nor raised
C26_PromptUntilNumber ==
    /\ Returned("get_float") => ReadsFirstAnswer(FloatLines)
    /\ Returned("get_int") => ReadsFirstAnswer(IntLines)

\* get_int without a default, given an empty line and a line with a
\* fraction, has returned the integer on the third line
C26_Witness ==
    /\ Returned("get_int")
    /\ call.default = None
    /\ call.lines = <<"", "2.5", "3">>
    /\ result = Num(<<3, 1>>)

\* C22: get_lobe_points(x) of a nozzle of nonzero length returns num_lobes
\* triples; the first component of each is x, and the other two are
\* r * cos and r * sin of the angle of lobe i, i / num_lobes of a turn, for
\* the one radius r = throat_area + (exit_area - throat_area) * x / length;
\* lobe_angle does not enter
C22_LobePoints ==
    (Returned("get_lobe_points") /\ nozzle.length # Zero)
    => LET r == RAdd(nozzle.throat_area,
                     RDiv(RMul(RSub(nozzle.exit_area, nozzle.throat_area),
                               call.x),
                          nozzle.length))
           turn(i) == (360 * (i - 1)) \div nozzle.num_lobes
       IN  /\ result.kind = "ok"
           /\ Len(result.val) = nozzle.num_lobes
           /\ \A i \in 1..nozzle.num_lobes :
                  /\ Len(result.val[i]) = 3
                  /\ result.val[i][1] = call.x
                  /\ result.val[i][2] = RMul(r, CosDeg(turn(i)))
                  /\ result.val[i][3] = RMul(r, SinDeg(turn(i)))

\* six lobes with lobe_angle 60 at x = 1.5 of a nozzle from 2 to 8 over
\* the length 5: the radius is 3.8, the first lobe at angle 0 and the
\* fourth opposite to it
C22_Witness ==
    /\ Returned("get_lobe_points")
    /\ nozzle.num_lobes = 6
    /\ nozzle.lobe_angle = R(60, 1)
    /\ nozzle.throat_area = R(2, 1)
    /\ nozzle.length = R(5, 1)
    /\ call.x = R(3, 2)
    /\ result.kind = "ok"
    /\ result.val[1] = <<R(3, 2), R(38, 10), Zero>>
    /\ result.val[4] = <<R(3, 2), R(-38, 10), Zero>>

\* C29: in main's flow parameters, for T_static >= 0, cp >= 0, gamma > 1
\* and any Mach numbers, T0 and Te are numbers with T0 - Te >= 0, and
\* calc_exit_velocity returns a number: its ValueError does not occur
C29_RadicandNeverNegative ==
    ( /\ Returned("flow_parameters")
      /\ RLe(Zero, call.T_static)
      /\ RLe(Zero, call.cp)
      /\ RLt(One, call.gamma) )
    => /\ IsNum(result.T0)
       /\ IsNum(result.Te)
       /\ RLe(Zero, RSub(result.T0.val, result.Te.val))
       /\ IsNum(result.Ve)

\* a negative inlet Mach number and a subsonic exit: the exit is cooler
\* than the stagnation temperature and the velocity is positive
C29_Witness ==
    /\ Returned("flow_parameters")
    /\ call.T_static = R(300, 1)
    /\ call.M_inlet = R(-2, 1)
    /\ call.M_exit = R(1, 2)
    /\ call.gamma = R(7, 5)
    /\ call.cp = R(1005, 1)
    /\ RLt(result.Te.val, result.T0.val)
    /\ IsNum(result.Ve)
    /\ RLt(Zero, result.Ve.val)

---------------------------------------------------------------------------
(* Properties of the OpenFOAMIntegration object *)

\* C24: run_simulation called while the configuration is unset raises the
\* configuration error and starts no program; a program is started only
\* when the configuration is set, and only setup_case sets it
C24_SolverNeedsConfiguration ==
    [][ /\ (Call_run_simulation /\ cfd.config = NoConfig)
            => /\ result' = Raise("ValueError")
               /\ cfd'.launched = cfd.launched
        /\ cfd'.launched # cfd.launched
            => /\ cfd.config # NoConfig
               /\ call'.op = "run_simulation"
        /\ cfd'.config # cfd.config => call'.op = "setup_case" ]_vars

\* run_simulation has raised the configuration error on an object that
\* has started nothing
C24_Witness ==
    /\ Returned("run_simulation")
    /\ cfd.config = NoConfig
    /\ result = Raise("ValueError")
    /\ cfd.launched = <<>>

\* the files a case needs
RequiredFiles ==
    {"system/controlDict", "system/fvSchemes", "system/fvSolution",
     "0/p", "0/U", "0/T"}

\* C25: setup_case given a CFD configuration, in a directory it may write,
\* returns normally and leaves the required files of the case
C25_SetupCaseWritesTheCase ==
    ( /\ Returned("setup_case")
      /\ call.cfd_config # NoConfig
      /\ call.writable )
    => /\ result = Done
       /\ RequiredFiles \subseteq cfd.files

\* C28: validate_with_analytical returns the empty mapping for every
\* analytical_results, whatever setup_case and run_simulation calls came
\* before: no row to print, and no division, even by an analytical zero
C28_ValidationIsEmpty ==
    Returned("validate_with_analytical")
    => /\ result.kind = "ok"
       /\ DOMAIN result.val = {}

\* a validation asked for after a solver run, with an analytical thrust
\* of zero
C28_Witness ==
    /\ Returned("validate_with_analytical")
    /\ cfd.launched # <<>>
    /\ "thrust" \in DOMAIN call.analytical_results
    /\ call.analytical_results["thrust"] = Zero
    /\ result.kind = "ok"

---------------------------------------------------------------------------
(* Properties of main *)

\* C27: for a nozzle length above zero, every axial position that main
\* passes to analyze_cooling_performance is strictly positive
C27_PositionsArePositive ==
    (frame.x_points # <<>> /\ RLt(Zero, nozzle.length)) =>
        \A i \in DOMAIN frame.x_points : RLt(Zero, frame.x_points[i])

SummaryPrinted == \E i \in DOMAIN stdout : stdout[i] = SummaryLines[1]

StageOver(stage) == stage \in {"declined", "completed"}

Assigned(value) == value.kind \notin {"unassigned", "error"}

\* C30: the performance summary is printed only once the film-cooling,
\* CFD and visualization stages have each been declined or completed; when
\* an accepted film-cooling or CFD stage has raised, the run has ended with
\* exit status 1 without the summary, although the seven values of the
\* summary had all been computed
C30_SummaryComesLast ==
    /\ SummaryPrinted =>
        /\ StageOver(frame.film_cooling)
        /\ StageOver(frame.cfd_analysis)
        /\ StageOver(frame.visualization)
    /\ (frame.film_cooling = "raised" \/ frame.cfd_analysis = "raised") =>
        /\ frame.pc = "exited"
        /\ frame.status = 1
        /\ ~SummaryPrinted
        /\ Assigned(frame.area_ratio)
        /\ Assigned(frame.required_expansion)
        /\ Assigned(frame.T0)
        /\ Assigned(frame.Te)
        /\ Assigned(frame.Ve)
        /\ Assigned(frame.Pe)
        /\ Assigned(frame.thrust)

\* the film-cooling stage was declined and the accepted CFD stage raised in
\* setup_case, after the configuration had been typed in full
C30_Witness ==
    /\ frame.film_cooling = "declined"
    /\ frame.cfd_analysis = "raised"
    /\ cfd.config # NoConfig
    /\ frame.pc = "exited"
    /\ frame.thrust.kind = "num"

---------------------------------------------------------------------------
(* Properties of the bell contour *)

IsBell == nozzle # NoNozzle /\ nozzle.cls = "BellNozzle"

\* the radii of the contour, in order
Radii == [i \in DOMAIN nozzle.contour_points |-> nozzle.contour_points[i][2]]

\* for 0 < throat_area <= exit_area the radii are non-negative and do not
\* decrease along the contour
RadiiRise ==
    (RLt(Zero, nozzle.throat_area)
     /\ RLe(nozzle.throat_area, nozzle.exit_area)) =>
        /\ \A i \in DOMAIN Radii : RLe(Zero, Radii[i])
        /\ \A i \in 1..(Len(Radii) - 1) : RLe(Radii[i], Radii[i + 1])

\* C21 as stated: the contour has exactly 100 pairs, the first is
\* (0, throat_area), the last is (length, exit_area), and the radii are
\* non-negative and non-decreasing for 0 < throat_area <= exit_area
C21_ContourEndsAtExit ==
    IsBell =>
        /\ Len(nozzle.contour_points) = ContourSamples
        /\ nozzle.contour_points[1] = <<Zero, nozzle.throat_area>>
        /\ nozzle.contour_points[ContourSamples]
               = <<nozzle.length, nozzle.exit_area>>
        /\ RadiiRise

\* a is within tol of b
Within(a, b, tol) == RLe(RAbs(RSub(a, b)), tol)

\* the exact cubic at x = k * length / 9, which is sample 11 * k + 1
CubicAt(k) ==
    RAdd(nozzle.throat_area,
         RMul(RSub(nozzle.exit_area, nozzle.throat_area), R(k * k * k, 729)))

\* |throat_area| + |exit_area - throat_area|, the size of the terms summed
TermSize ==
    RAdd(RAbs(nozzle.throat_area),
         RAbs(RSub(nozzle.exit_area, nozzle.throat_area)))

\* the samples run from 0 towards length without repeating
SamplesAdvance ==
    \A i \in 1..(ContourSamples - 1) :
        LET x == nozzle.contour_points[i][1]
            next == nozzle.contour_points[i + 1][1]
        IN  IF RLt(Zero, nozzle.length) THEN RLt(x, next) ELSE RLt(next, x)

\* C21: the contour has exactly 100 pairs whose x run from 0 to length;
\* each radius is throat_area + ((exit_area - throat_area) / length^3) * x^3
\* as floating point evaluates it, so the first pair is exactly
\* (0, throat_area) and the last is (length, r) with r within five unit
\* roundoffs of exit_area, relative to |exit_area| + |exit_area -
\* throat_area|; for 0 < throat_area <= exit_area the radii are
\* non-negative and non-decreasing
C21_ContourEndsNearExit ==
    IsBell =>
        /\ Len(nozzle.contour_points) = ContourSamples
        /\ nozzle.contour_points[1] = <<Zero, nozzle.throat_area>>
        /\ nozzle.contour_points[ContourSamples][1] = nozzle.length
        /\ SamplesAdvance
        /\ Within(Radii[ContourSamples], nozzle.exit_area,
                  RMul(RMul(R(5, 1), UnitRoundoff),
                       RAdd(RAbs(nozzle.exit_area),
                            RAbs(RSub(nozzle.exit_area,
                                      nozzle.throat_area)))))
        /\ \A k \in 0..9 :
              Within(Radii[11 * k + 1], CubicAt(k),
                     RMul(RMul(R(20, 1), UnitRoundoff), TermSize))
        /\ RadiiRise

\* a bell nozzle with 0 < throat_area <= exit_area whose last radius is
\* not exit_area
C21_Witness ==
    /\ IsBell
    /\ RLt(Zero, nozzle.throat_area)
    /\ RLe(nozzle.throat_area, nozzle.exit_area)
    /\ Radii[ContourSamples] # nozzle.exit_area

====
